---- MODULE Spec2Model ----
(***************************************************************************)
(* Model of MicromeriticsTristarII/calc_tristar.py: isotherm extraction,   *)
(* BET fit, BJH recurrence, per-file report and directory (batch) mode.    *)
(*                                                                         *)
(* Numbers are fixed point integers:                                       *)
(*   relative pressure        1/1000       (p/p0 * 1000)                   *)
(*   quantity adsorbed        1 cm3/g                                      *)
(*   lengths (r, t, D)        1/1000 nm                                    *)
(*   pore volume (dV, V)      1e-6 cm3/g                                   *)
(*   pore area (dA, A)        1/1000 m2/g                                  *)
(*   helper_arr               1e-6                                         *)
(*   log10 of a pressure      1e-6 ; log10 of a length  1/1024             *)
(* A numpy float that may be non-finite is an extended value, a record     *)
(* [k |-> "fin" | "nan" | "pinf" | "ninf", v |-> Int].                     *)
(* numpy index i is index i+1 of the TLA+ sequence.                        *)
(***************************************************************************)
EXTENDS Integers, Sequences, FiniteSets, TLC

(***************************************************************************)
(* Bounds of the model                                                     *)
(***************************************************************************)
MaxAdsRows == 4
MaxDesRows == 2
MaxFiles == 3
MaxBranchRows == 3

MaxBETRows == 4

MaxColumns == 2
MaxColumnLen == 3
MaxElements == 2
MaxHolders == 3
MaxAmounts == 3
MaxSpectra == 4
MaxIsoRows == 3
MaxEncodeFiles == 2
MaxParseFiles == 2
\* relative pressures (x1000) and quantities (cm3/g) a table row may hold
PLevels == {100, 200, 250, 600}
QLevels == {10, 20}
\* the pressures of a branch handed to calc_BJH directly
BranchLevels == PLevels \cup {990}

(***************************************************************************)
(* Fixed point arithmetic                                                  *)
(***************************************************************************)
Abs(a) == IF a < 0 THEN -a ELSE a
Sign(a) == IF a < 0 THEN -1 ELSE IF a > 0 THEN 1 ELSE 0

\* a / b rounded toward zero, b # 0
Quot(a, b) == Sign(a) * Sign(b) * (Abs(a) \div Abs(b))

\* a * b / c rounded toward zero without forming a * b when a is large, c > 0
MulDiv(a, b, c) ==
    Sign(a) * Sign(b) * ((Abs(a) \div c) * Abs(b) + ((Abs(a) % c) * Abs(b)) \div c)

RECURSIVE SqrtSearch(_, _, _)
SqrtSearch(n, lo, hi) ==
    IF lo >= hi THEN lo
    ELSE LET mid == (lo + hi + 1) \div 2
         IN  IF mid * mid <= n THEN SqrtSearch(n, mid, hi)
             ELSE SqrtSearch(n, lo, mid - 1)

\* np.sqrt of a non-negative integer, rounded down (n < 46340^2)
ISqrt(n) == SqrtSearch(n, 0, 46340)

(***************************************************************************)
(* Extended values: the non-finite results numpy produces instead of       *)
(* raising (division by zero, 0/0, log10(0))                               *)
(***************************************************************************)
Fin(v) == [k |-> "fin", v |-> v]
NaN == [k |-> "nan", v |-> 0]
PInf == [k |-> "pinf", v |-> 0]
NInf == [k |-> "ninf", v |-> 0]

IsFinite(x) == x.k = "fin"

\* numpy float division a * s / b of finite a, b (s > 0 a scale factor)
FloatDiv(a, s, b) ==
    IF b = 0
    THEN IF a > 0 THEN PInf ELSE IF a < 0 THEN NInf ELSE NaN
    ELSE Fin(Sign(b) * MulDiv(a, s, Abs(b)))

\* finite a divided by an extended value x (x.v in units 1/s)
DivByExt(a, s, x) ==
    IF x.k = "fin" THEN FloatDiv(a, s, x.v)
    ELSE IF x.k = "nan" THEN NaN
    ELSE Fin(0)

\* x < 0. as numpy evaluates it (False for nan)
ExtNegative(x) == x.k = "ninf" \/ (x.k = "fin" /\ x.v < 0)

\* x > y as np.argmax orders values (nan is handled by ArgMax itself)
ExtGreater(x, y) ==
    CASE x.k = "pinf" -> y.k # "pinf"
      [] x.k = "ninf" -> FALSE
      [] OTHER -> (y.k = "ninf") \/ (y.k = "fin" /\ x.v > y.v)

(***************************************************************************)
(* Sequences                                                               *)
(***************************************************************************)
RECURSIVE SumSeq(_)
SumSeq(s) == IF s = <<>> THEN 0 ELSE Head(s) + SumSeq(Tail(s))

RECURSIVE MaxSeq(_)
MaxSeq(s) ==
    IF Len(s) = 1 THEN s[1]
    ELSE LET m == MaxSeq(Tail(s)) IN IF s[1] >= m THEN s[1] ELSE m

\* the sequence f as a tuple of its values
Tuple(f) == SubSeq(f, 1, Len(f))

Reverse(s) == Tuple([i \in 1..Len(s) |-> s[Len(s) + 1 - i]])

\* a[mask] : the elements of a whose position satisfies the boolean mask
RECURSIVE MaskFrom(_, _, _)
MaskFrom(a, mask, i) ==
    IF i > Len(a) THEN <<>>
    ELSE (IF mask[i] THEN <<a[i]>> ELSE <<>>) \o MaskFrom(a, mask, i + 1)

Masked(a, mask) == MaskFrom(a, mask, 1)

\* a[1:]
FromIndex1(a) == SubSeq(a, 2, Len(a))

Ascending(s) == \A i \in 1..(Len(s) - 1) : s[i][1] <= s[i + 1][1]
Descending(s) == \A i \in 1..(Len(s) - 1) : s[i][1] >= s[i + 1][1]

RemoveAt(s, i) == SubSeq(s, 1, i - 1) \o SubSeq(s, i + 1, Len(s))

\* a[a[:, 0].argsort()] : every outcome argsort (not a stable sort) can give,
\* i.e. every arrangement of the rows of a in ascending pressure
RECURSIVE ArgsortAscending(_)
ArgsortAscending(a) ==
    IF a = <<>> THEN {<<>>}
    ELSE UNION { { <<a[i]>> \o t : t \in ArgsortAscending(RemoveAt(a, i)) } :
                 i \in { k \in 1..Len(a) : \A j \in 1..Len(a) : a[k][1] <= a[j][1] } }

\* a[a[:, 0].argsort()][::-1, :]
ArgsortDescending(a) == { Reverse(s) : s \in ArgsortAscending(a) }

\* ArgMaxInt returning the position of the last maximum
ArgMaxLast(a) ==
    (CHOOSE i \in 1..Len(a) :
        /\ \A j \in 1..Len(a) : a[j] <= a[i]
        /\ \A j \in (i + 1)..Len(a) : a[j] < a[i]) - 1

\* np.argmax of integers: position of the first maximum (numpy index)
ArgMaxInt(a) ==
    (CHOOSE i \in 1..Len(a) :
        /\ \A j \in 1..Len(a) : a[j] <= a[i]
        /\ \A j \in 1..(i - 1) : a[j] < a[i]) - 1

\* np.argmax of floats: the first nan if there is one, else the first maximum
ArgMax(a) ==
    IF \E i \in 1..Len(a) : a[i].k = "nan"
    THEN (CHOOSE i \in 1..Len(a) :
            a[i].k = "nan" /\ \A j \in 1..(i - 1) : a[j].k # "nan") - 1
    ELSE (CHOOSE i \in 1..Len(a) :
            /\ \A j \in 1..Len(a) : ~ExtGreater(a[j], a[i])
            /\ \A j \in 1..(i - 1) : ExtGreater(a[i], a[j])) - 1

(***************************************************************************)
(* np.log10                                                                *)
(***************************************************************************)
\* np.log10(p / 1000) * 1e6 at the pressures of the model, rounded
Log10Pressure(p) ==
    CASE p = 50 -> -1301030
      [] p = 100 -> -1000000
      [] p = 200 -> -698970
      [] p = 250 -> -602060
      [] p = 300 -> -522879
      [] p = 600 -> -221849
      [] p = 800 -> -96910
      [] p = 900 -> -45757
      [] p = 990 -> -4365

Pow10(e) == CASE e = 0 -> 1 [] e = 1 -> 10 [] e = 2 -> 100 [] e = 3 -> 1000
              [] e = 4 -> 10000 [] e = 5 -> 100000 [] e = 6 -> 1000000

\* the decimal exponent of x, 1 <= x < 10^7
Exp10(x) == CHOOSE e \in 0..6 : Pow10(e) <= x /\ (e = 6 \/ x < Pow10(e + 1))

\* binary digits of log10(m / 1000), 1000 <= m < 10000, by repeated squaring
RECURSIVE LogBits(_, _, _)
LogBits(m, k, acc) ==
    IF k = 0 THEN acc
    ELSE LET m2 == (m * m) \div 1000
         IN  IF m2 >= 10000 THEN LogBits(m2 \div 10, k - 1, 2 * acc + 1)
             ELSE LogBits(m2, k - 1, 2 * acc)

\* np.log10(x / 1000) * 1024 of a length x > 0
Log10Length(x) ==
    LET e == Exp10(x)
        m == IF e >= 3 THEN x \div Pow10(e - 3) ELSE x * Pow10(3 - e)
    IN  (e - 3) * 1024 + LogBits(m, 10, 0)

(***************************************************************************)
(* calc_BJH                                                                *)
(***************************************************************************)
start_pore_diam == 2500
end_pore_diam == 90000

\* radii = -0.415 / np.log10(p); log10(0) is -inf and gives 0
Radius(p) == IF p = 0 THEN 0 ELSE 415000000 \div (-Log10Pressure(p))

\* wall_ads_layers = np.sqrt(0.1399 / (0.034 - np.log10(p)))
WallLayer(p) ==
    IF p = 0 THEN 0
    ELSE ISqrt((1399000000 \div (34000 - Log10Pressure(p))) * 100)

\* radii, line 220
RECURSIVE Radii(_)
Radii(b) == IF b = <<>> THEN <<>> ELSE <<Radius(b[1][1])>> \o Radii(Tail(b))

\* wall_ads_layers, line 221
RECURSIVE WallLayers(_)
WallLayers(b) == IF b = <<>> THEN <<>> ELSE <<WallLayer(b[1][1])>> \o WallLayers(Tail(b))

\* diameters = radii + roll(radii, 1) + wall + roll(wall, 1); diameters[0] = 0.
RECURSIVE DiametersFrom(_, _, _)
DiametersFrom(radii, wall, j) ==
    IF j > Len(radii) THEN <<>>
    ELSE <<IF j = 1 THEN 0 ELSE radii[j] + radii[j - 1] + wall[j] + wall[j - 1]>>
         \o DiametersFrom(radii, wall, j + 1)

Diameters(radii, wall) == DiametersFrom(radii, wall, 1)

\* dlogD of step j (units 1/2048): log10 of a zero radius or layer is -inf
DLogD(radii, wall, j) ==
    LET prevZero == radii[j - 1] = 0 \/ wall[j - 1] = 0
        curZero == radii[j] = 0 \/ wall[j] = 0
    IN  IF prevZero THEN (IF curZero THEN NaN ELSE NInf)
        ELSE IF curZero THEN PInf
        ELSE Fin(Log10Length(radii[j - 1]) + Log10Length(wall[j - 1])
                 - Log10Length(radii[j]) - Log10Length(wall[j]))

\* the arrays before the loop: np.zeros_like(diameters), index 0 only
BJHZero ==
    [helper_arr |-> <<0>>, diff_V |-> <<0>>, diff_A |-> <<0>>,
     cum_V |-> <<0>>, cum_A |-> <<0>>,
     dV_dD |-> <<Fin(0)>>, dA_dD |-> <<Fin(0)>>,
     dV_dlogD |-> <<Fin(0)>>, dA_dlogD |-> <<Fin(0)>>]

\* a / d where d is the float difference of equal terms: exactly 0 (n = 0) or a
\* rounding residue of either sign (n = 1, n = -1); a quotient by a residue is
\* beyond 1e12 in size and is recorded as the infinity of its sign
DivByResidue(a, n) ==
    IF n = 0 THEN FloatDiv(a, 1, 0)
    ELSE IF a = 0 THEN Fin(0)
    ELSE IF Sign(a) * n > 0 THEN PInf ELSE NInf

\* helper_arr[i], line 241
HelperAt(s, wall, diam, j) ==
    MulDiv(s.diff_A[j - 1], 1000 - Quot(2000 * wall[j], diam[j]), 1000)
    + s.helper_arr[j - 1]

\* (diameters[i] / (diameters[i]/2 - wall_ads_layers[i]))**2 / 4, in 1/1000
PoreFactor(wall, diam, j) ==
    (Quot(diam[j] * 1000, diam[j] - 2 * wall[j])
     * Quot(diam[j] * 1000, diam[j] - 2 * wall[j])) \div 1000

\* diff_V[i], lines 243-244
DiffVAt(b, wall, diam, j, helper) ==
    MulDiv(Quot(15468 * (b[j - 1][2] - b[j][2]), 10)
             - MulDiv(helper, wall[j - 1] - wall[j], 1000),
           PoreFactor(wall, diam, j), 1000)

\* diff_A[i], line 247
DiffAAt(diam, j, dV) == MulDiv(dV, 4000, diam[j])

\* StepArrays clamping a negative differential before it is accumulated
StepArraysClamped(s, j, helper, dV, dA, dD, dlogD, tie, nD, nL) ==
    [helper_arr |-> Append(s.helper_arr, helper),
     diff_V |-> Append(s.diff_V, dV),
     cum_V |-> Append(s.cum_V, s.cum_V[j - 1] + (IF dV < 0 THEN 0 ELSE dV)),
     diff_A |-> Append(s.diff_A, dA),
     cum_A |-> Append(s.cum_A, s.cum_A[j - 1] + (IF dA < 0 THEN 0 ELSE dA)),
     dV_dD |-> Append(s.dV_dD, IF tie THEN DivByResidue(dV, nD)
                               ELSE FloatDiv(dV, 1000, 2 * dD)),
     dA_dD |-> Append(s.dA_dD, IF tie THEN DivByResidue(dA, nD)
                               ELSE FloatDiv(dA, 1000, 2 * dD)),
     dV_dlogD |-> Append(s.dV_dlogD, IF tie THEN DivByResidue(dV, nL)
                                     ELSE DivByExt(dV, 2048, dlogD)),
     dA_dlogD |-> Append(s.dA_dlogD, IF tie THEN DivByResidue(dA, nL)
                                     ELSE DivByExt(dA, 2048, dlogD))]

\* the four derivatives of lines 250-256 and the new elements of the arrays;
\* tie: the rows j - 1 and j have the same pressure, so that dD and dlogD
\* are the rounding residues nD and nL
StepArrays(s, j, helper, dV, dA, dD, dlogD, tie, nD, nL) ==
    [helper_arr |-> Append(s.helper_arr, helper),
     diff_V |-> Append(s.diff_V, dV),
     cum_V |-> Append(s.cum_V, s.cum_V[j - 1] + dV),
     diff_A |-> Append(s.diff_A, dA),
     cum_A |-> Append(s.cum_A, s.cum_A[j - 1] + dA),
     dV_dD |-> Append(s.dV_dD, IF tie THEN DivByResidue(dV, nD)
                               ELSE FloatDiv(dV, 1000, 2 * dD)),
     dA_dD |-> Append(s.dA_dD, IF tie THEN DivByResidue(dA, nD)
                               ELSE FloatDiv(dA, 1000, 2 * dD)),
     dV_dlogD |-> Append(s.dV_dlogD, IF tie THEN DivByResidue(dV, nL)
                                     ELSE DivByExt(dV, 2048, dlogD)),
     dA_dlogD |-> Append(s.dA_dlogD, IF tie THEN DivByResidue(dA, nL)
                                     ELSE DivByExt(dA, 2048, dlogD))]

StepFromDiffV(s, b, radii, wall, diam, j, nD, nL, helper, dV) ==
    StepArrays(s, j, helper, dV, DiffAAt(diam, j, dV),
               radii[j - 1] + wall[j - 1] - radii[j] - wall[j],
               DLogD(radii, wall, j),
               b[j - 1][1] = b[j][1] /\ b[j][1] # 0, nD, nL)

StepFromHelper(s, b, radii, wall, diam, j, nD, nL, helper) ==
    StepFromDiffV(s, b, radii, wall, diam, j, nD, nL, helper,
                  DiffVAt(b, wall, diam, j, helper))

\* one pass of the loop body (lines 241-256), for the TLA+ index j = i + 1
BJHStep(s, b, radii, wall, diam, j, nD, nL) ==
    StepFromHelper(s, b, radii, wall, diam, j, nD, nL, HelperAt(s, wall, diam, j))

\* for i in range(1, len(diameters))
RECURSIVE BJHLoop(_, _, _, _, _, _, _, _)
BJHLoop(s, b, radii, wall, diam, j, nD, nL) ==
    IF j > Len(b) THEN s
    ELSE BJHLoop(BJHStep(s, b, radii, wall, diam, j, nD, nL),
                 b, radii, wall, diam, j + 1, nD, nL)

\* (diameters >= start_pore_diam) & (diameters <= end_pore_diam)
UserMask(diam, lo, hi) ==
    Tuple([j \in 1..Len(diam) |-> diam[j] >= lo /\ diam[j] <= hi])

\* ClampNegative left out: the series as the loop filled it
ClampNothing(x) == x

\* x[x < 0.] = 0.
ClampNegative(x) ==
    Tuple([j \in 1..Len(x) |-> IF ExtNegative(x[j]) THEN Fin(0) ELSE x[j]])

\* MaxDUser taking the argmax after the clamp of lines 274-277
MaxDUserOfClamped(diam, dV_dD, mask) ==
    diam[ArgMax(Masked(ClampNegative(dV_dD), mask)) + 1]

\* max_D_user = diameters[np.argmax(dV_dD[mask])]
MaxDUser(diam, dV_dD, mask) == diam[ArgMax(Masked(dV_dD, mask)) + 1]

\* max_D_full = diameters[np.argmax(dV_dD)]
MaxDFull(diam, dV_dD) == diam[ArgMax(dV_dD) + 1]

\* Returned without the slice: the whole array, sentinel included
ReturnedWhole(x) == x

\* the slice x[1:] every series is returned with
Returned(x) == FromIndex1(x)

\* lines 260-301: the summary scalars, the clamp and the returned slices, for
\* the arrays s the loop has filled
BJHReturn(diam, s, mask, dV_D) ==
    IF Masked(diam, mask) = <<>> THEN [outcome |-> "ValueError"]
    ELSE
    [outcome |-> "ok",
     D |-> Returned(diam),
     dV |-> Returned(s.diff_V),
     V |-> Returned(s.cum_V),
     dV_dD |-> Returned(ClampNegative(s.dV_dD)),
     dV_dlogD |-> Returned(ClampNegative(s.dV_dlogD)),
     dA |-> Returned(s.diff_A),
     A |-> Returned(s.cum_A),
     dA_dD |-> Returned(ClampNegative(s.dA_dD)),
     dA_dlogD |-> Returned(ClampNegative(s.dA_dlogD)),
     total_V_user |-> MaxSeq(Masked(s.cum_V, mask)),
     total_V_full |-> MaxSeq(s.cum_V),
     total_A_user |-> MaxSeq(Masked(s.cum_A, mask)),
     total_A_full |-> MaxSeq(s.cum_A),
     max_D_user |-> MaxDUser(diam, s.dV_dD, mask),
     max_D_full |-> MaxDFull(diam, s.dV_dD),
     ave_D_user |-> FloatDiv(SumSeq(Masked(dV_D, mask)), 1000,
                             SumSeq(Masked(s.diff_V, mask))),
     ave_D_full |-> FloatDiv(SumSeq(dV_D), 1000, SumSeq(s.diff_V))]

\* dV_D = diameters * diff_V, line 268
DiameterVolume(diam, diff_V) ==
    Tuple([j \in 1..Len(diam) |-> MulDiv(diff_V[j], diam[j], 1000)])

BJHAfterLoop(diam, s, lo, hi) ==
    BJHReturn(diam, s, UserMask(diam, lo, hi), DiameterVolume(diam, s.diff_V))

BJHWithDiameters(b, radii, wall, diam, lo, hi, nD, nL) ==
    BJHAfterLoop(diam, BJHLoop(BJHZero, b, radii, wall, diam, 2, nD, nL), lo, hi)

BJHWithArrays(b, radii, wall, lo, hi, nD, nL) ==
    BJHWithDiameters(b, radii, wall, Diameters(radii, wall), lo, hi, nD, nL)

\* calc_BJH on the branch b already put in descending pressure order
\* (line 218); lo, hi are start_pore_diam, end_pore_diam; an empty branch
\* fails at diameters[0] = 0.
BJHOfSorted(b, lo, hi, nD, nL) ==
    IF Len(b) = 0 THEN [outcome |-> "IndexError"]
    ELSE BJHWithArrays(b, Radii(b), WallLayers(b), lo, hi, nD, nL)

\* the residues a float difference of equal terms can leave
Residues(b) ==
    IF \E j \in 2..Len(b) : b[j - 1][1] = b[j][1] /\ b[j][1] # 0
    THEN {-1, 0, 1} ELSE {0}

\* calc_BJH without the sort of line 218: the rows are taken as given
calc_BJHAsGiven(iso_branch, lo, hi) ==
    { BJHOfSorted(iso_branch, lo, hi, nD, nL) :
        nD \in Residues(iso_branch), nL \in Residues(iso_branch) }

\* calc_BJH(iso_branch): every result the sort of line 218 and the float
\* rounding of equal pressures allow
calc_BJH(iso_branch, lo, hi) ==
    UNION { { BJHOfSorted(b, lo, hi, nD, nL) : nD \in Residues(b), nL \in Residues(b) } :
            b \in ArgsortDescending(iso_branch) }

(***************************************************************************)
(* parse_isoterm_branch, parse_isotherms                                   *)
(* A file is [ads |-> t, des |-> t]; a table t is [found |-> whether the   *)
(* section anchor of the branch is in the file, rows |-> the (pressure,    *)
(* quantity) rows under it, in file order].                                *)
(***************************************************************************)
\* np.zeros([1, 2])
ZeroPlaceholder == << <<0, 0>> >>

parse_isoterm_branch(fname, branch) ==
    LET t == IF branch = "Adsorption" THEN fname.ads ELSE fname.des
    IN  IF ~t.found THEN ZeroPlaceholder ELSE t.rows

Column(a, c) == Tuple([i \in 1..Len(a) |-> a[i][c]])

\* iso[: max_pressure_idx + 1, :]
AdsSlice(iso, max_pressure_idx) == SubSeq(iso, 1, max_pressure_idx + 1)

\* DesSlice starting after the maximum: iso[max_pressure_idx + 1 :, :]
DesSliceAfterMax(iso, max_pressure_idx) == SubSeq(iso, max_pressure_idx + 2, Len(iso))

\* iso[max_pressure_idx :, :]
DesSlice(iso, max_pressure_idx) == SubSeq(iso, max_pressure_idx + 1, Len(iso))

\* lines 153-170 for the sorted branches ads, des
IsothermsOfSorted(ads, des) ==
    LET iso == ads \o des
    IN  IF iso = <<>> THEN [outcome |-> "ValueError"]
        ELSE LET max_pressure_idx == ArgMaxInt(Column(iso, 1))
                 ads_p_q == AdsSlice(iso, max_pressure_idx)
                 des_p_q == DesSlice(iso, max_pressure_idx)
             IN  [outcome |-> "ok",
                  ads_p_q |-> ads_p_q,
                  des_p_q |-> des_p_q,
                  ads_p |-> Column(ads_p_q, 1),
                  ads_q |-> Column(ads_p_q, 2),
                  des_p |-> Column(des_p_q, 1),
                  des_q |-> Column(des_p_q, 2),
                  iso_p |-> Column(iso, 1),
                  iso_q |-> Column(iso, 2)]

\* parse_isotherms(fname): every result the two sorts allow
parse_isotherms(fname) ==
    { IsothermsOfSorted(a, d) :
        a \in ArgsortAscending(parse_isoterm_branch(fname, "Adsorption")),
        d \in ArgsortDescending(parse_isoterm_branch(fname, "Desorption")) }

(***************************************************************************)
(* calc_BET                                                                *)
(* x in 1/1000, BET y in 1e-5, slope and intercept in 1e-6, r in 1e-4,     *)
(* bet_A and bet_A_err in 1/1000 m2/g                                      *)
(***************************************************************************)
\* BETWindow with the bounds included: (ads[:, 0] >= 0.05) & (ads[:, 0] <= 0.3)
BETWindowClosed(ads) ==
    Masked(ads, [i \in 1..Len(ads) |-> ads[i][1] >= 50 /\ ads[i][1] <= 300])

\* ads[(ads[:, 0] > 0.05) & (ads[:, 0] < 0.3), :]
BETWindow(ads) ==
    Masked(ads, [i \in 1..Len(ads) |-> ads[i][1] > 50 /\ ads[i][1] < 300])

\* 1. / (y * (x**(-1) - 1)), for y > 0
BETTransform(x, y) == Quot(x * 100000, y * (1000 - x))

\* linregress(ads_bet) for n >= 2 points, not all x equal: slope, intercept
\* and r_value (0 when all y are equal, clipped to [-1, 1])
linregress(xs, ys) ==
    LET n == Len(xs)
        Sx == SumSeq(xs)
        Sy == SumSeq(ys)
        Sxx == n * SumSeq([i \in 1..n |-> xs[i] * xs[i]]) - Sx * Sx
        Sxy == n * SumSeq([i \in 1..n |-> xs[i] * ys[i]]) - Sx * Sy
        Syy == n * SumSeq([i \in 1..n |-> ys[i] * ys[i]]) - Sy * Sy
        slope == MulDiv(Sxy, 10000, Sxx)
        r == IF Syy = 0 THEN 0
             ELSE IF n = 2 THEN Sign(Sxy) * 10000
             ELSE Quot(Sxy * 1000, (ISqrt(Sxx * 10000) * ISqrt(Syy * 100)) \div 10000)
    IN  [slope |-> slope,
         intercept |-> Quot(Sy * 10, n) - MulDiv(slope, Sx, 1000 * n),
         r_value |-> IF r > 10000 THEN 10000 ELSE IF r < -10000 THEN -10000 ELSE r]

\* bet_ssa = 4.35255551372 / (slope + intercept)
BetSSA(slope, intercept) == FloatDiv(4352556, 1000, slope + intercept)

\* np.sqrt((r_value**(-2) - 1) / (n - 2)) in 1/1000, for r_value # 0, n > 2
RelativeError(r, n) ==
    ISqrt(Quot(Quot((100000000 - r * r) * 10, (r * r) \div 100000), n - 2))

\* BetSSAErr without the factor bet_ssa:
\* 3 * np.sqrt(slope_err**2 + intercept_err**2) / (slope + intercept)
BetSSAErrRelative(bet_ssa, slope, intercept, rel) ==
    LET slope_err == MulDiv(slope, rel, 1000)
        intercept_err == MulDiv(intercept, rel, 1000)
        norm == 100 * ISqrt(Quot(slope_err, 100) * Quot(slope_err, 100)
                            + Quot(intercept_err, 100) * Quot(intercept_err, 100))
    IN  IF bet_ssa.k # "fin" THEN NaN
        ELSE FloatDiv(3 * norm, 1000, slope + intercept)

\* bet_ssa_err = 3 * bet_ssa * np.sqrt(slope_err**2 + intercept_err**2)
\*               / (slope + intercept)
BetSSAErr(bet_ssa, slope, intercept, rel) ==
    LET slope_err == MulDiv(slope, rel, 1000)
        intercept_err == MulDiv(intercept, rel, 1000)
        norm == 100 * ISqrt(Quot(slope_err, 100) * Quot(slope_err, 100)
                            + Quot(intercept_err, 100) * Quot(intercept_err, 100))
    IN  IF bet_ssa.k # "fin" THEN NaN
        ELSE FloatDiv(3 * MulDiv(bet_ssa.v, norm, 1000), 1000, slope + intercept)

\* calc_BET(ads): every outcome linregress and the float arithmetic of
\* lines 182-183 allow (bet_y_calc is in the unit of intercept, 1e-6).
\*   0 points: linregress raises ValueError (empty input);
\*   1 point : linregress returns r_value = 0.0 and 0.0 ** (-2) raises;
\*   all x equal: linregress raises ValueError;
\*   all y equal: r_value = 0.0 and 0.0 ** (-2) raises;
\*   2 points: r_value is 1 or -1 up to rounding; (r ** (-2) - 1) / 0 raises
\*             when r_value was clipped to the Python float 1.0 and is nan
\*             or inf for a numpy float.
calc_BET(ads) ==
    LET ads_bet == BETWindow(ads)
        n == Len(ads_bet)
        bet_x == Column(ads_bet, 1)
        bet_y == Tuple([i \in 1..n |-> BETTransform(ads_bet[i][1], ads_bet[i][2])])
        fit == linregress(bet_x, bet_y)
        bet_ssa == BetSSA(fit.slope, fit.intercept)
        result(err) ==
            [outcome |-> "ok",
             bet_x |-> bet_x,
             bet_y |-> bet_y,
             bet_y_calc |-> Tuple([i \in 1..n |->
                               fit.intercept + MulDiv(fit.slope, bet_x[i], 1000)]),
             bet_A |-> bet_ssa,
             bet_A_err |-> err,
             bet_r |-> fit.r_value]
    IN  IF n = 0 THEN {[outcome |-> "ValueError"]}
        ELSE IF n = 1 THEN {[outcome |-> "ZeroDivisionError"]}
        ELSE IF \A i \in 1..n : bet_x[i] = bet_x[1] THEN {[outcome |-> "ValueError"]}
        ELSE IF fit.r_value = 0 THEN {[outcome |-> "ZeroDivisionError"]}
        ELSE IF n = 2
        THEN {[outcome |-> "ZeroDivisionError"], result(NaN), result(PInf)}
        ELSE {result(BetSSAErr(bet_ssa, fit.slope, fit.intercept,
                               RelativeError(fit.r_value, n)))}

(***************************************************************************)
(* Input space                                                             *)
(***************************************************************************)
\* the rows of a table: at most m rows, every pressure measured once, listed
\* in ascending or in descending pressure
RowSeqs(m) ==
    UNION { UNION { { a, Reverse(a) } :
                    a \in { s \in [1..k -> PLevels \X QLevels] :
                              \A i \in 1..(k - 1) : s[i][1] < s[i + 1][1] } } :
            k \in 0..m }

Tables(m) ==
    {[found |-> FALSE, rows |-> <<>>]} \cup {[found |-> TRUE, rows |-> r] : r \in RowSeqs(m)}

Files == [ads : Tables(MaxAdsRows), des : Tables(MaxDesRows)]

\* a file with three points in the BET window and pores in the BJH window
GoodFile ==
    [ads |-> [found |-> TRUE,
              rows |-> << <<100, 10>>, <<200, 10>>, <<250, 20>>, <<600, 20>> >>],
     des |-> [found |-> TRUE, rows |-> << <<250, 10>> >>]]

\* the same file without its adsorption section
NoAdsorptionFile == [GoodFile EXCEPT !.ads = [found |-> FALSE, rows |-> <<>>]]

\* a file with a single point in the BET window
FewPointsFile ==
    [GoodFile EXCEPT !.ads = [found |-> TRUE, rows |-> << <<100, 10>>, <<600, 20>> >>]]

\* the files a directory of the model holds
DirFiles == {GoodFile, NoAdsorptionFile, FewPointsFile}

Listings == UNION { [1..n -> DirFiles] : n \in 0..MaxFiles }

\* the branches calc_BJH is called on directly: rows in any order, pressures
\* that may repeat, and at most one row of the zero placeholder
Branches ==
    UNION { { b \in [1..n -> (BranchLevels \X QLevels) \cup {<<0, 0>>}] :
                Cardinality({ i \in 1..n : b[i][1] = 0 }) <= 1 } :
            n \in 0..MaxBranchRows }

\* sys.argv[1]: a file, a directory (the files glob finds in it) or neither
Arguments ==
    {[kind |-> "file", file |-> f] : f \in Files}
    \cup {[kind |-> "dir", files |-> l] : l \in Listings}
    \cup {[kind |-> "missing"]}

(***************************************************************************)
(* calc_file: summary and graphs (lines 323-344)                           *)
(***************************************************************************)
\* the values __main__ asks for (lines 393-411)
summary_vals == <<"bet_A", "total_A_user", "total_V_full", "ave_D_user">>
graph_vals ==
    <<"iso_p", "iso_q", "D", "dV_dD", "dV_dlogD", "V", "dA_dD", "dA_dlogD", "A">>

additional_titles == <<"", "", "Desorption ", "Adsorption ">>

HEADER_UNITS ==
    [bet_A |-> "m2/g", total_A_user |-> "m2/g", total_V_full |-> "cm3/g",
     ave_D_user |-> "nm", iso_p |-> "p/p0", iso_q |-> "cm3/g", D |-> "nm",
     dV_dD |-> "dV/dD cm3/(nm g)", dV_dlogD |-> "dV/dlog(D) cm3/(nm g)",
     V |-> "cm3/g", dA_dD |-> "dA/dD m2/(nm g)",
     dA_dlogD |-> "dA/dlog(D) m2/(nm g)", A |-> "m2/g"]

\* the columns the two nested loops collect: one per (data, val) with val in
\* data, data in the order of all_data and val in the order of vals
RECURSIVE Collect(_, _, _, _)
Collect(all_data, vals, idx, v) ==
    IF idx > Len(all_data) THEN <<>>
    ELSE IF v > Len(vals) THEN Collect(all_data, vals, idx + 1, 1)
    ELSE (IF vals[v] \in DOMAIN all_data[idx]
          THEN << [title |-> <<additional_titles[idx], vals[v]>>,
                   unit |-> HEADER_UNITS[vals[v]],
                   val |-> vals[v],
                   data |-> all_data[idx][vals[v]]] >>
          ELSE <<>>) \o Collect(all_data, vals, idx, v + 1)

\* the lists of titles, units and values of the collected columns c
SummaryLists(c) ==
    << Tuple([i \in 1..Len(c) |-> c[i].title]),
       Tuple([i \in 1..Len(c) |-> c[i].unit]),
       Tuple([i \in 1..Len(c) |-> c[i].data]) >>

\* summary = [titles, units, values]
Summary(all_data) == SummaryLists(Collect(all_data, summary_vals, 1, 1))

\* the lists of titles, units, sample names and series of the columns c
GraphLists(c, sample) ==
    << Tuple([i \in 1..Len(c) |-> c[i].title]),
       Tuple([i \in 1..Len(c) |-> c[i].unit]),
       Tuple([i \in 1..Len(c) |-> sample]),
       Tuple([i \in 1..Len(c) |-> c[i].data]) >>

\* graphs = [titles, units, sample names, series]
Graphs(all_data, sample) == GraphLists(Collect(all_data, graph_vals, 1, 1), sample)

\* whether a column of c holds a nan or an infinity
AnyNonFinite(c) ==
    ~(\A i \in 1..Len(c) :
        c[i].val \in {"dV_dD", "dV_dlogD", "dA_dD", "dA_dlogD"}
          => \A j \in 1..Len(c[i].data) : IsFinite(c[i].data[j]))

\* whether a series written to the workbook holds a nan or an infinity
HasNonFinite(all_data) == AnyNonFinite(Collect(all_data, graph_vals, 1, 1))

(***************************************************************************)
(* The program: __main__ after the user confirmed, in single file mode     *)
(* (calc_file on the file) or directory mode (calc_file on every file,     *)
(* then the aggregate workbook)                                            *)
(***************************************************************************)
VARIABLES
    dir_or_file,   \* the argument: see Arguments
    pc,            \* position in the program
    idx,           \* directory mode: position of the for loop in the listing
    fname,         \* the file calc_file works on (0: the single file)
    iso,           \* calc_file: result of parse_isotherms
    bet_data,      \* calc_file: result of calc_BET
    bjh_ads,       \* calc_file: result of calc_BJH on the adsorption branch
    bjh_des,       \* calc_file: result of calc_BJH on the desorption branch
    summary,       \* __main__: summary of the last file, None before
    summaries,     \* __main__: one row per file
    workbooks,     \* the .xlsx files written, by name
    stdout,        \* what was printed
    exc,           \* the exception that ended the program, None if none
    target_dir,    \* sync_dirs.py: the tree of the target directory
    args,          \* element_content.py: the namespace parse_args works on
    user_input     \* the answers read by input(), in the order they were given

vars == <<dir_or_file, pc, idx, fname, iso, bet_data, bjh_ads, bjh_des,
          summary, summaries, workbooks, stdout, exc, target_dir, args,
          user_input>>

None == [outcome |-> "None"]

\* the content of the file named fname
Content(f) == IF dir_or_file.kind = "dir" THEN dir_or_file.files[f] ELSE dir_or_file.file

Init ==
    /\ dir_or_file \in Arguments
    /\ pc = "main"
    /\ idx = 0
    /\ fname = 0
    /\ iso = None
    /\ bet_data = None
    /\ bjh_ads = None
    /\ bjh_des = None
    /\ summary = None
    /\ summaries = <<>>
    /\ workbooks = <<>>
    /\ stdout = <<>>
    /\ exc = None
    /\ target_dir = None
    /\ args = None
    /\ user_input = <<"y">>

\* an exception leaves the program: nothing in __main__ or calc_file catches
Raise(e, where) ==
    /\ pc' = "raised"
    /\ exc' = [outcome |-> e, where |-> where, fname |-> fname]

\* lines 424-430, 456-462: directory, file or neither
Main ==
    /\ pc = "main"
    /\ IF dir_or_file.kind = "dir"
       THEN pc' = "for" /\ idx' = 1 /\ stdout' = stdout /\ fname' = fname
       ELSE IF dir_or_file.kind = "file"
       THEN pc' = "calc_file" /\ idx' = idx /\ stdout' = stdout /\ fname' = 0
       ELSE /\ pc' = "done" /\ idx' = idx /\ fname' = fname
            /\ stdout' = Append(stdout, <<"Error: file or directory was not found.">>)
    /\ UNCHANGED <<dir_or_file, iso, bet_data, bjh_ads, bjh_des, summary,
                   summaries, workbooks, exc>>
    /\ UNCHANGED <<target_dir, args, user_input>>

\* line 432-433: the next file of the listing, or the end of the loop
ForLoop ==
    /\ pc = "for"
    /\ IF idx <= Len(dir_or_file.files)
       THEN /\ fname' = idx
            /\ stdout' = Append(stdout, <<"Calculating", idx>>)
            /\ pc' = "calc_file"
       ELSE /\ fname' = fname
            /\ stdout' = Append(stdout, <<"Saving summaries...">>)
            /\ pc' = "save"
    /\ iso' = None /\ bet_data' = None /\ bjh_ads' = None /\ bjh_des' = None
    /\ UNCHANGED <<dir_or_file, idx, summary, summaries, workbooks, exc>>
    /\ UNCHANGED <<target_dir, args, user_input>>

\* what parse_isoterm_branch prints for the branches whose anchor is missing
NotFoundMessages(f) ==
    (IF f.ads.found THEN <<>> ELSE << <<"Adsorption was not found", fname>> >>)
    \o (IF f.des.found THEN <<>> ELSE << <<"Desorption was not found", fname>> >>)

\* lines 323-384 of calc_file and the caller's use of the returned summary
\* (436-437), for the results i, b, ja, jd of lines 316-321.
\* The workbook <sample>_calc.xlsx holds the graphs (write_summary is False);
\* xlsxwriter refuses a nan or an infinity with a TypeError, or (before its
\* version 1.2.3) writes it; the workbook is saved when the with block is left
WriteReport(i, b, ja, jd) ==
    LET all_data == <<b, i, jd, ja>>
        book(ok) == [name |-> <<fname, "_calc.xlsx">>,
                     graphs |-> Graphs(all_data, fname),
                     complete |-> ok]
        returned ==
            /\ workbooks' = Append(workbooks, book(TRUE))
            /\ exc' = exc
            /\ summary' = Summary(all_data)
            /\ IF dir_or_file.kind = "dir"
               THEN /\ summaries' = Append(summaries, <<fname>> \o Summary(all_data)[3])
                    /\ stdout' = Append(stdout \o NotFoundMessages(Content(fname)),
                                        <<"Done!", fname>>)
                    /\ idx' = idx + 1
                    /\ pc' = "for"
               ELSE /\ summaries' = summaries
                    /\ stdout' = stdout \o NotFoundMessages(Content(fname))
                    /\ idx' = idx
                    /\ pc' = "done"
    IN  \/ returned
        \/ /\ HasNonFinite(all_data)
           /\ workbooks' = Append(workbooks, book(FALSE))
           /\ Raise("TypeError", "write_graphs_to_worksheet")
           /\ stdout' = stdout \o NotFoundMessages(Content(fname))
           /\ UNCHANGED <<summary, summaries, idx>>

\* calc_file left by the exception e of the call named where
CalcFileRaises(e, where) ==
    /\ Raise(e, where)
    /\ stdout' = stdout \o NotFoundMessages(Content(fname))
    /\ UNCHANGED <<summary, summaries, workbooks, idx>>

\* AdsAfterBET if line 176 made a view of ads: line 177 writes the BET y
\* value into the rows of ads inside the window
AdsAfterBETView(ads) ==
    Tuple([k \in 1..Len(ads) |->
             IF ads[k][1] > 50 /\ ads[k][1] < 300 /\ ads[k][2] > 0
             THEN <<ads[k][1], BETTransform(ads[k][1], ads[k][2])>>
             ELSE ads[k]])

\* the array ads after calc_BET(ads): line 176 indexes it with a boolean
\* array, which copies the rows, and line 177 writes to the copy; calc_BJH
\* rebinds iso_branch to a sorted copy in line 218 and writes to neither
AdsAfterBET(ads) == ads

\* the result i of parse_isotherms, all of it views of one merged array,
\* once the rows of ads_p_q hold ads
Views(i, ads) ==
    LET n == Len(i.iso_p)
        merged == ads \o Tuple([k \in 1..(n - Len(ads)) |->
                                  <<i.iso_p[Len(ads) + k], i.iso_q[Len(ads) + k]>>])
        des == SubSeq(merged, n - Len(i.des_p_q) + 1, n)
    IN  [outcome |-> "ok",
         ads_p_q |-> ads,
         des_p_q |-> des,
         ads_p |-> Column(ads, 1),
         ads_q |-> Column(ads, 2),
         des_p |-> Column(des, 1),
         des_q |-> Column(des, 2),
         iso_p |-> Column(merged, 1),
         iso_q |-> Column(merged, 2)]

\* the isotherm p of parse_isotherms as calc_BET leaves it
IsoAfterBET(p) ==
    IF p.outcome # "ok" THEN p ELSE Views(p, AdsAfterBET(p.ads_p_q))

\* calc_file(fname, write_summary=False, ...): lines 316-384
CalcFile ==
    /\ pc = "calc_file"
    /\ \E p \in parse_isotherms(Content(fname)) : \E i \in {IsoAfterBET(p)} :
         /\ iso' = i
         /\ IF i.outcome # "ok"
            THEN /\ bet_data' = None /\ bjh_ads' = None /\ bjh_des' = None
                 /\ CalcFileRaises(i.outcome, "parse_isotherms")
            ELSE \E b \in calc_BET(p.ads_p_q) :
              /\ bet_data' = b
              /\ IF b.outcome # "ok"
                 THEN /\ bjh_ads' = None /\ bjh_des' = None
                      /\ CalcFileRaises(b.outcome, "calc_BET")
                 ELSE \E ja \in calc_BJH(i.ads_p_q, start_pore_diam, end_pore_diam) :
                   /\ bjh_ads' = ja
                   /\ IF ja.outcome # "ok"
                      THEN /\ bjh_des' = None
                           /\ CalcFileRaises(ja.outcome, "calc_BJH(ads)")
                      ELSE \E jd \in calc_BJH(i.des_p_q, start_pore_diam, end_pore_diam) :
                        /\ bjh_des' = jd
                        /\ IF jd.outcome # "ok"
                           THEN CalcFileRaises(jd.outcome, "calc_BJH(des)")
                           ELSE WriteReport(i, b, ja, jd)
    /\ UNCHANGED <<dir_or_file, fname>>
    /\ UNCHANGED <<target_dir, args, user_input>>

\* whether a row of summaries holds a nan or an infinity: the summary values
\* that are floats of a division are bet_A and ave_D_user, at the columns the
\* titles of the summary sum name
SummaryNonFinite(sum, rows) ==
    ~(\A r \in 1..Len(rows) : \A c \in 1..Len(sum[1]) :
        sum[1][c][2] \in {"bet_A", "ave_D_user"} => IsFinite(rows[r][c + 1]))

\* lines 441-453: summary_calc.xlsx; summary is None when no file was found,
\* and summary[0] then fails inside the with block; wsh.write refuses a nan
\* or an infinity as in calc_file
SaveSummaries ==
    /\ pc = "save"
    /\ IF summary = None
       THEN /\ workbooks' = Append(workbooks, [name |-> <<"summary_calc.xlsx">>,
                                               rows |-> <<>>, complete |-> FALSE])
            /\ Raise("TypeError", "__main__")
       ELSE LET rows == << <<"Sample">> \o summary[1], <<"">> \o summary[2] >>
                        \o summaries
            IN  \/ /\ workbooks' = Append(workbooks,
                          [name |-> <<"summary_calc.xlsx">>,
                           rows |-> rows, complete |-> TRUE])
                   /\ pc' = "done"
                   /\ exc' = exc
                \/ /\ SummaryNonFinite(summary, summaries)
                   /\ workbooks' = Append(workbooks,
                          [name |-> <<"summary_calc.xlsx">>,
                           rows |-> rows, complete |-> FALSE])
                   /\ Raise("TypeError", "__main__")
    /\ UNCHANGED <<dir_or_file, idx, fname, iso, bet_data, bjh_ads, bjh_des,
                   summary, summaries, stdout>>
    /\ UNCHANGED <<target_dir, args, user_input>>

Next ==
    \/ Main
    \/ ForLoop
    \/ CalcFile
    \/ SaveSummaries

Spec == Init /\ [][Next]_vars

Terminated == pc \in {"done", "raised"}

(***************************************************************************)
(* calc_BJH called on a branch of its own                                  *)
(***************************************************************************)
InitBJH ==
    /\ dir_or_file \in {[kind |-> "branch", branch |-> b] : b \in Branches}
    /\ pc = "calc_BJH"
    /\ idx = 0
    /\ fname = 0
    /\ iso = None
    /\ bet_data = None
    /\ bjh_ads = None
    /\ bjh_des = None
    /\ summary = None
    /\ summaries = <<>>
    /\ workbooks = <<>>
    /\ stdout = <<>>
    /\ exc = None
    /\ target_dir = None
    /\ args = None
    /\ user_input = <<"y">>

\* bjh_ads = calc_BJH(branch, start_pore_diam, end_pore_diam)
CallBJH ==
    /\ pc = "calc_BJH"
    /\ \E r \in calc_BJH(dir_or_file.branch, start_pore_diam, end_pore_diam) :
         /\ bjh_ads' = r
         /\ IF r.outcome = "ok"
            THEN pc' = "done" /\ exc' = exc
            ELSE Raise(r.outcome, "calc_BJH")
    /\ UNCHANGED <<dir_or_file, idx, fname, iso, bet_data, bjh_des, summary,
                   summaries, workbooks, stdout>>
    /\ UNCHANGED <<target_dir, args, user_input>>

NextBJH == CallBJH

SpecBJH == InitBJH /\ [][NextBJH]_vars

(***************************************************************************)
(* calc_BET called on an adsorption branch of its own                      *)
(***************************************************************************)
\* the pressures of a branch handed to calc_BET directly: the bounds of the
\* BET window, pressures inside it and a pressure above it
BETLevels == {50, 100, 200, 250, 300, 600}

\* the branches calc_BET is called on: ads_p_q, in ascending pressure (line 153)
BETBranches ==
    UNION { { b \in [1..n -> BETLevels \X QLevels] :
                \A i \in 1..(n - 1) : b[i][1] < b[i + 1][1] } :
            n \in 0..MaxBETRows }

InitBET ==
    /\ dir_or_file \in {[kind |-> "ads", branch |-> b] : b \in BETBranches}
    /\ pc = "calc_BET"
    /\ idx = 0
    /\ fname = 0
    /\ iso = None
    /\ bet_data = None
    /\ bjh_ads = None
    /\ bjh_des = None
    /\ summary = None
    /\ summaries = <<>>
    /\ workbooks = <<>>
    /\ stdout = <<>>
    /\ exc = None
    /\ target_dir = None
    /\ args = None
    /\ user_input = <<"y">>

\* bet_data = calc_BET(branch)
CallBET ==
    /\ pc = "calc_BET"
    /\ \E r \in calc_BET(dir_or_file.branch) :
         /\ bet_data' = r
         /\ IF r.outcome = "ok"
            THEN pc' = "done" /\ exc' = exc
            ELSE Raise(r.outcome, "calc_BET")
    /\ UNCHANGED <<dir_or_file, idx, fname, iso, bjh_ads, bjh_des, summary,
                   summaries, workbooks, stdout>>
    /\ UNCHANGED <<target_dir, args, user_input>>

NextBET == CallBET

SpecBET == InitBET /\ [][NextBET]_vars

(***************************************************************************)
(* parse_isotherms called on a file of its own: two branches that were     *)
(* found, of one row or more, in any order and with repeated pressures     *)
(***************************************************************************)
IsoRows == {200, 600} \X QLevels

IsoBranches == UNION { [1..k -> IsoRows] : k \in 1..MaxIsoRows }

IsoFiles ==
    {[ads |-> [found |-> TRUE, rows |-> a], des |-> [found |-> TRUE, rows |-> d]] :
        a \in IsoBranches, d \in IsoBranches}

InitIso ==
    /\ dir_or_file \in {[kind |-> "file", file |-> f] : f \in IsoFiles}
    /\ pc = "parse_isotherms"
    /\ idx = 0
    /\ fname = 0
    /\ iso = None
    /\ bet_data = None
    /\ bjh_ads = None
    /\ bjh_des = None
    /\ summary = None
    /\ summaries = <<>>
    /\ workbooks = <<>>
    /\ stdout = <<>>
    /\ exc = None
    /\ target_dir = None
    /\ args = None
    /\ user_input = <<"y">>

\* calc_file, line 316
CallParseIsotherms ==
    /\ pc = "parse_isotherms"
    /\ \E i \in parse_isotherms(dir_or_file.file) :
         /\ iso' = i
         /\ IF i.outcome = "ok"
            THEN pc' = "done" /\ exc' = exc
            ELSE Raise(i.outcome, "parse_isotherms")
    /\ UNCHANGED <<dir_or_file, idx, fname, bet_data, bjh_ads, bjh_des, summary,
                   summaries, workbooks, stdout, target_dir, args, user_input>>

NextIso == CallParseIsotherms

SpecIso == InitIso /\ [][NextIso]_vars

(***************************************************************************)
(* parse_tristar.py: directory mode. A file is [missing |-> the summary    *)
(* values whose line is not in the file]; a cell written to a worksheet is *)
(* [row, col, val], row and col counted from 0.                            *)
(***************************************************************************)
search_vals ==
    <<"BET surface area",
      "BJH Adsorption cumulative surface area of pores",
      "BJH Desorption cumulative surface area of pores",
      "BJH Adsorption cumulative volume of pores",
      "BJH Desorption cumulative volume of pores",
      "BJH Adsorption average pore",
      "BJH Desorption average pore",
      "Sample Mass">>

\* get_summary_val(fname, vname): [vname, unit, value], or [0, ''] when the
\* line of vname is not found
get_summary_val(f, vname) ==
    IF vname \in f.missing THEN <<0, "">>
    ELSE <<vname, <<"unit of", vname>>, <<"value of", vname>>>>

\* parse_summary(fname)
parse_summary(f) ==
    Tuple([i \in 1..Len(search_vals) |-> get_summary_val(f, search_vals[i])])

\* the two loops of write_to_worksheet from the cell (row, col) on: every
\* column is read up to the length of the first one, and reading past the
\* end of a shorter column raises IndexError
RECURSIVE WriteColumns(_, _, _, _, _)
WriteColumns(data, col_offset, col, row, cells) ==
    IF col >= Len(data) THEN [outcome |-> "ok", cells |-> cells]
    ELSE IF row >= Len(data[1])
    THEN WriteColumns(data, col_offset, col + 1, 0, cells)
    ELSE IF row >= Len(data[col + 1])
    THEN [outcome |-> "IndexError", cells |-> cells]
    ELSE WriteColumns(data, col_offset, col, row + 1,
             Append(cells, [row |-> row, col |-> col + col_offset,
                            val |-> data[col + 1][row + 1]]))

\* write_to_worksheet(worksheet, data, col_offset) on a worksheet holding
\* the cells written so far
write_to_worksheet(cells, data, col_offset) ==
    WriteColumns(data, col_offset, 0, 0, cells)

\* lines 434-436: the value (index 2) of every entry of the rows 1.. of
\* summaries, from the entry (row, col) on
RECURSIVE WriteRest(_, _, _, _)
WriteRest(rows, row, col, cells) ==
    IF row >= Len(rows) THEN [outcome |-> "ok", cells |-> cells]
    ELSE IF col >= Len(rows[1]) THEN WriteRest(rows, row + 1, 0, cells)
    ELSE IF Len(rows[row + 1][col + 1]) < 3
    THEN [outcome |-> "IndexError", cells |-> cells]
    ELSE WriteRest(rows, row, col + 1,
             Append(cells, [row |-> row + 2, col |-> col,
                            val |-> rows[row + 1][col + 1][3]]))

\* lines 425-436: the content of summary.xlsx for the rows of summaries
SummarySheet(rows) ==
    LET a1 == << [row |-> 0, col |-> 0, val |-> "Sample"] >>
    IN  IF rows = <<>> THEN [outcome |-> "IndexError", cells |-> a1]
        ELSE LET a3 == Append(a1, [row |-> 2, col |-> 0, val |-> rows[1][1][3]])
                 head == write_to_worksheet(a3, Tail(rows[1]), 1)
             IN  IF head.outcome # "ok" THEN head
                 ELSE WriteRest(rows, 1, 0, head.cells)

\* the files of a directory: complete, or with the line of one value missing
ParseFiles ==
    {[missing |-> {}]}
    \cup {[missing |-> {search_vals[i]}] : i \in 1..Len(search_vals)}

ParseListings == UNION { [1..n -> ParseFiles] : n \in 0..MaxParseFiles }

InitParse ==
    /\ dir_or_file \in {[kind |-> "parse_dir", files |-> l] : l \in ParseListings}
    /\ pc = "parse_for"
    /\ idx = 1
    /\ fname = 0
    /\ iso = None
    /\ bet_data = None
    /\ bjh_ads = None
    /\ bjh_des = None
    /\ summary = None
    /\ summaries = <<>>
    /\ workbooks = <<>>
    /\ stdout = <<>>
    /\ exc = None
    /\ target_dir = None
    /\ args = None
    /\ user_input = <<"y">>

\* lines 415-419: one pass of the loop; parse_file(fname, write_parsed=False,
\* write_summary=False) returns parse_summary(fname) and writes no workbook
ParseLoop ==
    /\ pc = "parse_for"
    /\ idx <= Len(dir_or_file.files)
    /\ fname' = idx
    /\ summary' = parse_summary(dir_or_file.files[idx])
    /\ summaries' = Append(summaries,
                        << <<"", "", idx>> >> \o parse_summary(dir_or_file.files[idx]))
    /\ stdout' = stdout \o << <<"Parsing", idx>> >>
                   \o Tuple([i \in 1..Cardinality(dir_or_file.files[idx].missing) |->
                               <<"No value was found", idx>>])
                   \o << <<"Done!", idx>> >>
    /\ idx' = idx + 1
    /\ UNCHANGED <<dir_or_file, pc, iso, bet_data, bjh_ads, bjh_des, workbooks, exc>>
    /\ UNCHANGED <<target_dir, args, user_input>>

\* lines 423-436: summary.xlsx, saved when the with block is left, also by an
\* exception
ParseSave ==
    /\ pc = "parse_for"
    /\ idx > Len(dir_or_file.files)
    /\ stdout' = Append(stdout, <<"Saving summaries...">>)
    /\ LET sheet == SummarySheet(summaries)
       IN  /\ workbooks' = Append(workbooks,
                  [name |-> <<"summary.xlsx">>, cells |-> sheet.cells,
                   complete |-> sheet.outcome = "ok"])
           /\ IF sheet.outcome = "ok"
              THEN pc' = "done" /\ exc' = exc
              ELSE Raise(sheet.outcome, "__main__")
    /\ UNCHANGED <<dir_or_file, idx, fname, iso, bet_data, bjh_ads, bjh_des,
                   summary, summaries>>
    /\ UNCHANGED <<target_dir, args, user_input>>

NextParse ==
    \/ ParseLoop
    \/ ParseSave

SpecParse == InitParse /\ [][NextParse]_vars

(***************************************************************************)
(* The two worksheet writers called on columns of any lengths              *)
(***************************************************************************)
\* the loops of write_graphs_to_worksheet over the rows 0..2 (titles, units,
\* sample names), from the list of the row on
RECURSIVE WriteHeaderRows(_, _, _, _)
WriteHeaderRows(graphs, offset, row, cells) ==
    IF row >= 3 THEN cells
    ELSE WriteHeaderRows(graphs, offset, row + 1,
             cells \o Tuple([c \in 1..Len(graphs[row + 1]) |->
                        [row |-> row, col |-> c - 1 + offset,
                         val |-> graphs[row + 1][c]]]))

\* the loops of write_graphs_to_worksheet over the series: every column is
\* read up to its own length
RECURSIVE WriteSeries(_, _, _, _)
WriteSeries(series, offset, col, cells) ==
    IF col >= Len(series) THEN cells
    ELSE WriteSeries(series, offset, col + 1,
             cells \o Tuple([r \in 1..Len(series[col + 1]) |->
                        [row |-> r - 1 + 3, col |-> col + offset,
                         val |-> series[col + 1][r]]]))

\* write_graphs_to_worksheet(wsh, graphs, offset)
write_graphs_to_worksheet(cells, graphs, offset) ==
    [outcome |-> "ok",
     cells |-> WriteSeries(graphs[4], offset, 0,
                   WriteHeaderRows(graphs, offset, 0, cells))]

ColumnValues == {1, 2}

Columns == UNION { [1..n -> ColumnValues] : n \in 0..MaxColumnLen }

ColumnLists == UNION { [1..n -> Columns] : n \in 0..MaxColumns }

\* calc_file, lines 340-343: one title, unit and sample name per series
GraphsOf(data) ==
    << Tuple([c \in 1..Len(data) |-> "title"]),
       Tuple([c \in 1..Len(data) |-> "unit"]),
       Tuple([c \in 1..Len(data) |-> "sample"]),
       data >>

InitWrite ==
    /\ dir_or_file \in {[kind |-> "columns", data |-> d, offset |-> o] :
                           d \in ColumnLists, o \in {0, 1}}
    /\ pc = "write"
    /\ idx = 1
    /\ fname = 0
    /\ iso = None
    /\ bet_data = None
    /\ bjh_ads = None
    /\ bjh_des = None
    /\ summary = None
    /\ summaries = <<>>
    /\ workbooks = <<>>
    /\ stdout = <<>>
    /\ exc = None
    /\ target_dir = None
    /\ args = None
    /\ user_input = <<"y">>

\* a workbook written by `write` and saved when the with block is left
WriteWorkbook(name, sheet, where) ==
    /\ workbooks' = Append(workbooks,
           [name |-> name, cells |-> sheet.cells, complete |-> sheet.outcome = "ok"])
    /\ IF sheet.outcome = "ok"
       THEN pc' = "done" /\ exc' = exc
       ELSE Raise(sheet.outcome, where)
    /\ UNCHANGED <<dir_or_file, idx, fname, iso, bet_data, bjh_ads, bjh_des,
                   summary, summaries, stdout>>
    /\ UNCHANGED <<target_dir, args, user_input>>

\* parse_tristar.parse_file, lines 333-346: the columns written by
\* write_to_worksheet
CallWriteToWorksheet ==
    /\ pc = "write"
    /\ WriteWorkbook(<<"parsed">>,
           write_to_worksheet(<<>>, dir_or_file.data, dir_or_file.offset), "parse_file")

\* calc_tristar.calc_file, lines 354-368: the series written by
\* write_graphs_to_worksheet
CallWriteGraphs ==
    /\ pc = "write"
    /\ WriteWorkbook(<<"calc">>,
           write_graphs_to_worksheet(<<>>, GraphsOf(dir_or_file.data), dir_or_file.offset),
           "calc_file")

NextWrite ==
    \/ CallWriteToWorksheet
    \/ CallWriteGraphs

SpecWrite == InitWrite /\ [][NextWrite]_vars

(***************************************************************************)
(* utils/sync_dirs.py. A directory tree is a function from the names of    *)
(* its entries to nodes; a node is a file or a directory with its          *)
(* modification time (os.path.getmtime) and, for a directory, its entries. *)
(* The file system itself does not fail: a copy fails only where the       *)
(* destination is a directory.                                             *)
(***************************************************************************)
Names == {"a", "b"}

\* os.listdir: the names in the order the model lists them
ListOrder == <<"a", "b">>

MTimes == {1, 2}

EmptyTree == [n \in {} |-> n]

\* a file; data tells whose bytes it holds: "source" for a file of the
\* source tree, "target" for a file the target held before the call
File(t) == [type |-> "file", mtime |-> t, entries |-> EmptyTree, data |-> "source"]

\* a directory; its modification time is the earliest of MTimes
Dir(e) == [type |-> "dir", mtime |-> 1, entries |-> e, data |-> ""]

TreesOver(nodes) == UNION { [D -> nodes] : D \in SUBSET Names }

FileNodes == {File(t) : t \in MTimes}

\* trees with directories nested two deep
InnerTrees == TreesOver(FileNodes \cup {Dir(EmptyTree)})

Trees == TreesOver(FileNodes \cup {Dir(e) : e \in InnerTrees})

\* the tree with the bytes of its files its own
RECURSIVE OwnData(_)
OwnData(tree) ==
    [n \in DOMAIN tree |->
        IF tree[n].type = "file" THEN [tree[n] EXCEPT !.data = "target"]
        ELSE [tree[n] EXCEPT !.entries = OwnData(tree[n].entries)]]

Put(tree, name, node) ==
    [n \in DOMAIN tree \cup {name} |-> IF n = name THEN node ELSE tree[n]]

\* RemoveMissing that removes files only: os.remove without shutil.rmtree
RemoveMissingFiles(source, target) ==
    [n \in {m \in DOMAIN target : m \in DOMAIN source \/ target[m].type = "dir"} |->
        target[n]]

\* lines 13-20: the entries of the target that the source does not have are
\* removed, a directory with all it holds
RemoveMissing(source, target) ==
    [n \in DOMAIN target \cap DOMAIN source |-> target[n]]

Removed(source, target) ==
    SelectSeq(Tuple([i \in 1..Len(ListOrder) |->
                       IF ListOrder[i] \in DOMAIN target \ DOMAIN source
                       THEN <<"Removing", <<ListOrder[i]>>>> ELSE <<>>]),
              LAMBDA m : m # <<>>)

\* shutil.copy2(source_path, target_path) of the file `node` named `name`
\* where the target has the entry `old`: a file is replaced, a directory
\* receives the file under its name, and the copy into a directory that has
\* a directory of that name fails
Copy2Over(name, node, old) ==
    IF old.type = "file" THEN [outcome |-> "ok", node |-> node]
    ELSE IF name \in DOMAIN old.entries /\ old.entries[name].type = "dir"
    THEN [outcome |-> "IsADirectoryError", node |-> old]
    ELSE [outcome |-> "ok",
          node |-> [old EXCEPT !.entries = Put(old.entries, name, node)]]

\* SyncFile that also updates a target file of the same modification time:
\* source_time >= target_time
SyncFileNotOlder(source, target, name) ==
    IF name \notin DOMAIN target
    THEN [outcome |-> "ok", target |-> Put(target, name, source[name]),
          out |-> << <<"File copied", <<name>>>> >>]
    ELSE IF source[name].mtime >= target[name].mtime
    THEN LET c == Copy2Over(name, source[name], target[name])
         IN  [outcome |-> "ok", target |-> Put(target, name, c.node),
              out |-> IF c.outcome = "ok" THEN << <<"File updated", <<name>>>> >>
                      ELSE << <<"FAILED UPDATE", <<name>>>> >>]
    ELSE [outcome |-> "ok", target |-> target, out |-> <<>>]

\* lines 35-52: the source entry is a file
SyncFile(source, target, name) ==
    IF name \notin DOMAIN target
    THEN [outcome |-> "ok", target |-> Put(target, name, source[name]),
          out |-> << <<"File copied", <<name>>>> >>]
    ELSE IF source[name].mtime > target[name].mtime
    THEN LET c == Copy2Over(name, source[name], target[name])
         IN  [outcome |-> "ok", target |-> Put(target, name, c.node),
              out |-> IF c.outcome = "ok" THEN << <<"File updated", <<name>>>> >>
                      ELSE << <<"FAILED UPDATE", <<name>>>> >>]
    ELSE [outcome |-> "ok", target |-> target, out |-> <<>>]

\* the messages of the call on the directory `name`: what is printed is the
\* path, os.path.join(target_dir, path), here relative to the first call
Under(name, out) ==
    Tuple([k \in 1..Len(out) |-> <<out[k][1], <<name>> \o out[k][2]>>])

RECURSIVE sync_dirs(_, _)
RECURSIVE SyncPaths(_, _, _, _)
\* lines 23-52: the loop over source_paths from the i-th name of the listing
SyncPaths(source, target, i, out) ==
    IF i > Len(ListOrder) THEN [outcome |-> "ok", target |-> target, out |-> out]
    ELSE LET name == ListOrder[i]
         IN  IF name \notin DOMAIN source THEN SyncPaths(source, target, i + 1, out)
             ELSE IF source[name].type = "dir"
             THEN LET made == IF name \in DOMAIN target THEN target
                              ELSE Put(target, name, Dir(EmptyTree))
                      o == out \o << <<"Entering directory", <<name>>>> >>
                             \o (IF name \in DOMAIN target THEN <<>>
                                 ELSE << <<"Created path", <<name>>>> >>)
                      r == sync_dirs(source[name].entries, made[name].entries)
                      t == Put(made, name, [made[name] EXCEPT !.entries = r.target])
                  IN  IF made[name].type = "file"
                      THEN [outcome |-> "NotADirectoryError", target |-> made, out |-> o]
                      ELSE IF r.outcome = "ok"
                      THEN SyncPaths(source, t, i + 1, o \o Under(name, r.out))
                      ELSE [outcome |-> r.outcome, target |-> t,
                            out |-> o \o Under(name, r.out)]
             ELSE LET r == SyncFile(source, target, name)
                  IN  SyncPaths(source, r.target, i + 1, out \o r.out)

\* sync_dirs(source_dir, target_dir) on the entries of the two directories;
\* called from line 33 on a target that is a file, os.listdir(target_dir) of
\* line 13 raises NotADirectoryError (see SyncPaths)
sync_dirs(source, target) ==
    SyncPaths(source, RemoveMissing(source, target), 1, Removed(source, target))

InitSync ==
    /\ dir_or_file \in {[kind |-> "sync", source |-> s, target |-> OwnData(t)] :
                           s \in Trees, t \in Trees}
    /\ pc = "sync_dirs"
    /\ idx = 0
    /\ fname = 0
    /\ iso = None
    /\ bet_data = None
    /\ bjh_ads = None
    /\ bjh_des = None
    /\ summary = None
    /\ summaries = <<>>
    /\ workbooks = <<>>
    /\ stdout = <<>>
    /\ exc = None
    /\ target_dir = dir_or_file.target
    /\ args = None
    /\ user_input = <<>>

\* __main__, line 84
CallSyncDirs ==
    /\ pc = "sync_dirs"
    /\ LET r == sync_dirs(dir_or_file.source, target_dir)
       IN  /\ target_dir' = r.target
           /\ stdout' = stdout \o r.out
           /\ IF r.outcome = "ok"
              THEN pc' = "done" /\ exc' = exc
              ELSE Raise(r.outcome, "sync_dirs")
    /\ UNCHANGED <<dir_or_file, idx, fname, iso, bet_data, bjh_ads, bjh_des,
                   summary, summaries, workbooks, args, user_input>>

NextSync == CallSyncDirs

SpecSync == InitSync /\ [][NextSync]_vars

(***************************************************************************)
(* OlympusDeltaXRF/element_content.py: MetalContentParser.parse_args. A    *)
(* comma separated argument is the sequence of its entries, <<>> for the   *)
(* empty string; the spectra file is [beams, columns].                     *)
(***************************************************************************)
TITLE_COL == 1

NUM_REPEATS == 3

\* element_data.get_elements(): the beam of every element it defines
get_elements == [Si |-> [beam |-> 2], Au |-> [beam |-> 1]]

\* a string argument that is split into a list only when it is not empty
Str == [type |-> "str", items |-> <<>>]

List(items) == [type |-> "list", items |-> items]

SplitIfGiven(entries) == IF entries = <<>> THEN Str ELSE List(entries)

SetAttr(ns, name, value) ==
    [n \in DOMAIN ns \cup {name} |-> IF n = name THEN value ELSE ns[n]]

\* self.error(message): argparse prints the message and exits
ParserError(message) ==
    /\ pc' = "exited"
    /\ exc' = [outcome |-> "SystemExit", where |-> "parser.error", message |-> message]

\* lines 391-393 and 409-411: the loop over [powder_element] + elements
\* from the i-th element on
RECURSIVE BeamLoop(_, _, _)
BeamLoop(els, i, beams) ==
    IF i > Len(els) THEN [outcome |-> "ok"]
    ELSE IF els[i] \notin DOMAIN get_elements
    THEN [outcome |-> "KeyError", message |-> <<els[i]>>]
    ELSE IF get_elements[els[i]].beam \notin beams
    THEN [outcome |-> "error",
          message |-> <<"No beam", get_elements[els[i]].beam, "for element", els[i],
                        "is present in spectra CSV file">>]
    ELSE BeamLoop(els, i + 1, beams)

\* [args.powder_element] + args.elements raises TypeError when elements is
\* still the empty string
CheckBeamsOf(a) ==
    IF a.elements.type = "str" THEN [outcome |-> "TypeError", message |-> <<>>]
    ELSE BeamLoop(<<a.powder_element>> \o a.elements.items, 1, a.beams)

\* lines 396-400
RECURSIVE ElementLoop(_, _)
ElementLoop(els, i) ==
    IF i > Len(els) THEN [outcome |-> "ok"]
    ELSE IF els[i] \notin DOMAIN get_elements
    THEN [outcome |-> "error",
          message |-> <<"element", els[i],
                        "selected for analysis is not in ./element_content/element_data.py">>]
    ELSE ElementLoop(els, i + 1)

CheckElementsOf(a) ==
    IF a.powder_element \notin DOMAIN get_elements
    THEN [outcome |-> "error",
          message |-> <<"powder element", a.powder_element,
                        "is not in ./element_content/element_data.py">>]
    ELSE ElementLoop(a.elements.items, 1)

\* line 414
NumSpectra(a) ==
    (a.spectra.columns - (IF a.skip_XRF_calibration THEN 1 ELSE 0) - TITLE_COL)
        \div (a.repeats * a.num_beams)

\* lines 424-428: augment holders in loop
RECURSIVE AugmentHolders(_, _, _, _, _)
AugmentHolders(holders, num_holders, i, num_spectra, holder_idx) ==
    IF i >= num_spectra THEN holders
    ELSE AugmentHolders(Append(holders, holders[holder_idx + 1]), num_holders,
             i + 1, num_spectra,
             IF holder_idx + 1 = num_holders THEN 0 ELSE holder_idx + 1)

\* lines 418-432
HoldersOf(a, num_spectra) ==
    IF a.holders.items = <<>>
    THEN [holders |-> a.holders, num_holders |-> 0, skip_background |-> TRUE]
    ELSE LET zero_based == Tuple([i \in 1..Len(a.holders.items) |-> a.holders.items[i] - 1])
             num_holders == Cardinality({zero_based[i] : i \in 1..Len(zero_based)})
         IN  [holders |-> List(IF num_holders < num_spectra
                               THEN AugmentHolders(zero_based, num_holders, num_holders,
                                                   num_spectra, 0)
                               ELSE zero_based),
              num_holders |-> num_holders,
              skip_background |-> a.skip_background]

\* lines 438-445: augment powder weights in a loop
RECURSIVE AugmentWeights(_, _, _, _, _)
AugmentWeights(weights, num_weights, i, num_spectra, weight_idx) ==
    IF i >= num_spectra THEN weights
    ELSE AugmentWeights(Append(weights, weights[weight_idx + 1]), num_weights,
             i + 1, num_spectra,
             IF weight_idx + 1 = num_weights THEN 0 ELSE weight_idx + 1)

\* lines 435-447, for the weights given as a list
PowderWeightsOf(a) ==
    IF Len(a.powder_weights.items) < a.num_spectra - a.num_holders
    THEN AugmentWeights(a.powder_weights.items, Len(a.powder_weights.items),
             a.num_holders + Len(a.powder_weights.items), a.num_spectra, 0)
    ELSE a.powder_weights.items

\* lines 455-457: the labels made when none is given
LabelsOf(a, weights) ==
    Tuple([x \in 1..(IF a.num_spectra > a.num_holders
                     THEN a.num_spectra - a.num_holders ELSE 0) |->
             <<"Sample", x - 1, weights[x]>>])

\* the beams a spectra file may hold
BeamSets == {{0, 1, 2}, {0, 2}}

\* a calibration spectrum and n measured spectra of NUM_REPEATS repeats
SpectraFiles ==
    {[beams |-> b, columns |-> TITLE_COL + 1 + n * NUM_REPEATS * Cardinality(b)] :
        b \in BeamSets, n \in 1..MaxSpectra}

ElementNames == {"Si", "Au", "Ag"}

HolderIDs == {1, 2}

SeqsUpTo(S, n) == UNION { [1..k -> S] : k \in 0..n }

\* the command line; what it does not give keeps the default of lines 545-598
CommandLines ==
    {[kind |-> "args", spectra |-> f, powder_element |-> pe, elements |-> els,
      holders |-> hs, element_amounts |-> ea, calibrate |-> ca] :
        f \in SpectraFiles, pe \in {"Si", "Ag"},
        els \in SeqsUpTo(ElementNames, MaxElements),
        hs \in SeqsUpTo(HolderIDs, MaxHolders),
        ea \in SeqsUpTo({"1"}, MaxAmounts), ca \in BOOLEAN}

InitArgs ==
    /\ dir_or_file \in CommandLines
    /\ pc = "parse_args"
    /\ idx = 0
    /\ fname = 0
    /\ iso = None
    /\ bet_data = None
    /\ bjh_ads = None
    /\ bjh_des = None
    /\ summary = None
    /\ summaries = <<>>
    /\ workbooks = <<>>
    /\ stdout = <<>>
    /\ exc = None
    /\ target_dir = None
    /\ args = None
    /\ user_input = <<>>

ArgsUnchanged ==
    UNCHANGED <<dir_or_file, idx, fname, iso, bet_data, bjh_ads, bjh_des,
                summary, summaries, workbooks, stdout, target_dir, user_input>>

\* lines 351-383: super().parse_args(), the spectra file, the element data
\* and the lists of element amounts and elements
LoadSpectra ==
    /\ pc = "parse_args"
    /\ args' = [spectra |-> dir_or_file.spectra,
                powder_element |-> dir_or_file.powder_element,
                elements |-> SplitIfGiven(dir_or_file.elements),
                element_amounts |-> SplitIfGiven(dir_or_file.element_amounts),
                holders |-> [type |-> "str", items |-> dir_or_file.holders],
                powder_weights |-> [type |-> "str", items |-> <<250>>],
                labels |-> Str,
                skip_XRF_calibration |-> TRUE,
                skip_background |-> FALSE,
                repeats |-> NUM_REPEATS,
                calibrate |-> dir_or_file.calibrate]
    /\ pc' = "beams"
    /\ exc' = exc
    /\ ArgsUnchanged

\* lines 385-393
CheckBeams ==
    /\ pc = "beams"
    /\ LET a == SetAttr(SetAttr(args, "beams", args.spectra.beams),
                        "num_beams", Cardinality(args.spectra.beams))
           r == CheckBeamsOf(a)
       IN  /\ args' = a
           /\ IF r.outcome = "ok" THEN pc' = "elements" /\ exc' = exc
              ELSE IF r.outcome = "error" THEN ParserError(r.message)
              ELSE Raise(r.outcome, "parse_args")
    /\ ArgsUnchanged

\* lines 395-411
CheckElements ==
    /\ pc = "elements"
    /\ LET e == CheckElementsOf(args)
           r == CheckBeamsOf(args)
       IN  IF e.outcome # "ok" THEN ParserError(e.message)
           ELSE IF r.outcome = "ok" THEN pc' = "holders" /\ exc' = exc
           ELSE IF r.outcome = "error" THEN ParserError(r.message)
           ELSE Raise(r.outcome, "parse_args")
    /\ args' = args
    /\ ArgsUnchanged

\* lines 413-432
Holders ==
    /\ pc = "holders"
    /\ LET h == HoldersOf(args, NumSpectra(args))
       IN  args' = SetAttr(SetAttr(SetAttr(SetAttr(args,
                       "num_spectra", NumSpectra(args)),
                       "num_holders", h.num_holders),
                       "holders", h.holders),
                       "skip_background", h.skip_background)
    /\ pc' = "labels"
    /\ exc' = exc
    /\ ArgsUnchanged

\* lines 434-457
Labels ==
    /\ pc = "labels"
    /\ LET w == PowderWeightsOf(args)
       IN  args' = SetAttr(SetAttr(args, "powder_weights", List(w)),
                           "labels", List(LabelsOf(args, w)))
    /\ pc' = "calibration"
    /\ exc' = exc
    /\ ArgsUnchanged

\* lines 460-500: the calibration check, or the calibration files, which
\* are found on the disk or not
Calibration ==
    /\ pc = "calibration"
    /\ IF args.calibrate
       THEN IF args.holders.items = <<>>
            THEN ParserError(<<"no holders for background subtraction were supplied for calibration">>)
            ELSE IF ~(\/ Len(args.element_amounts.items) + Len(args.holders.items)
                           = args.num_spectra
                      \/ Len(args.holders.items) = args.num_spectra)
            THEN ParserError(<<"number of measured spectra in the CSV file does not correspond to specified holder IDs and element amounts">>)
            ELSE pc' = "done" /\ exc' = exc
       ELSE \/ pc' = "done" /\ exc' = exc
            \/ ParserError(<<"calibration file for element", args.elements.items[1],
                             "is not found">>)
    /\ args' = args
    /\ ArgsUnchanged

NextArgs ==
    \/ LoadSpectra
    \/ CheckBeams
    \/ CheckElements
    \/ Holders
    \/ Labels
    \/ Calibration

SpecArgs == InitArgs /\ [][NextArgs]_vars

(***************************************************************************)
(* The confirmation prompt of calc_tristar.py, parse_tristar.py and        *)
(* encode_utf_16_le.py. dir_or_file.kind tells the script: "dir", "file"   *)
(* and "missing" are arguments of calc_tristar, "parse_dir" a directory    *)
(* given to parse_tristar, "encode_dir" one given to encode_utf_16_le. The *)
(* files a script writes are appended to workbooks; none of the three      *)
(* deletes a file.                                                         *)
(***************************************************************************)
Answers == {"y", "Y", "yes", "", "n"}

\* Confirmed that also takes the capital letter
ConfirmedAnyCase(answer) == answer \in {"y", "Y"}

\* user_input == 'y'
Confirmed(answer) == answer = "y"

\* the .txt files of a directory, by the encoding of their bytes
EncodeListings == UNION { [1..n -> {"ansi", "utf-16-le"}] : n \in 0..MaxEncodeFiles }

InitPrompt ==
    /\ dir_or_file \in
         {[kind |-> "dir", files |-> l] : l \in Listings}
         \cup {[kind |-> "file", file |-> f] : f \in DirFiles}
         \cup {[kind |-> "missing"]}
         \cup {[kind |-> "parse_dir", files |-> l] : l \in ParseListings}
         \cup {[kind |-> "encode_dir", files |-> l] : l \in EncodeListings}
    /\ pc = "prompt"
    /\ idx = 0
    /\ fname = 0
    /\ iso = None
    /\ bet_data = None
    /\ bjh_ads = None
    /\ bjh_des = None
    /\ summary = None
    /\ summaries = <<>>
    /\ workbooks = <<>>
    /\ stdout = <<>>
    /\ exc = None
    /\ target_dir = None
    /\ args = None
    /\ user_input = <<>>

\* calc_tristar 389-390 and 464-465, parse_tristar 398-399 and 445-446,
\* encode_utf_16_le 7-8: the answer is read and compared with 'y'
Prompt ==
    /\ pc = "prompt"
    /\ \E answer \in Answers :
         /\ user_input' = Append(user_input, answer)
         /\ IF Confirmed(answer)
            THEN /\ pc' = CASE dir_or_file.kind = "parse_dir" -> "parse_for"
                            [] dir_or_file.kind = "encode_dir" -> "encode_for"
                            [] OTHER -> "main"
                 /\ stdout' = stdout
            ELSE /\ pc' = "done"
                 /\ stdout' = IF dir_or_file.kind = "encode_dir" THEN stdout
                              ELSE Append(stdout, <<"Aborting">>)
    /\ idx' = IF dir_or_file.kind \in {"parse_dir", "encode_dir"} THEN 1 ELSE idx
    /\ UNCHANGED <<dir_or_file, fname, iso, bet_data, bjh_ads, bjh_des, summary,
                   summaries, workbooks, exc, target_dir, args>>

\* encode_utf_16_le 14-18: one pass of the loop. The codec 'ansi' exists on
\* Windows only (LookupError elsewhere, at the first open), and the bytes of
\* a file that is UTF-16 already may have no ANSI reading
Encode ==
    /\ pc = "encode_for"
    /\ IF idx > Len(dir_or_file.files)
       THEN /\ pc' = "done"
            /\ UNCHANGED <<idx, fname, workbooks, exc>>
       ELSE /\ fname' = idx
            /\ \/ /\ workbooks' = Append(workbooks,
                        [name |-> <<idx, ".txt">>, encoding |-> "utf-16-le",
                         complete |-> TRUE])
                  /\ idx' = idx + 1
                  /\ pc' = pc
                  /\ exc' = exc
               \/ /\ idx = 1
                  /\ Raise("LookupError", "open")
                  /\ UNCHANGED <<idx, workbooks>>
               \/ /\ dir_or_file.files[idx] = "utf-16-le"
                  /\ Raise("UnicodeDecodeError", "file.read")
                  /\ UNCHANGED <<idx, workbooks>>
    /\ UNCHANGED <<dir_or_file, iso, bet_data, bjh_ads, bjh_des, summary,
                   summaries, stdout, target_dir, args, user_input>>

NextPrompt ==
    \/ Prompt
    \/ Main
    \/ ForLoop
    \/ CalcFile
    \/ SaveSummaries
    \/ ParseLoop
    \/ ParseSave
    \/ Encode

SpecPrompt == InitPrompt /\ [][NextPrompt]_vars

(***************************************************************************)
(* Properties                                                              *)
(***************************************************************************)
Printed(line) == \E m \in 1..Len(stdout) : stdout[m] = line

SummaryWritten ==
    \E w \in 1..Len(workbooks) :
        workbooks[w].name = <<"summary_calc.xlsx">> /\ workbooks[w].complete

\* calc_file raised on a file of the directory
FileFailed ==
    /\ dir_or_file.kind = "dir"
    /\ exc # None
    /\ exc.where # "__main__"

\* C1: in directory mode, when calc_file fails on a file the batch goes on:
\* the program ends only after every file of the listing was taken up and the
\* aggregate workbook summary_calc.xlsx was written.
C1_BatchSurvivesFileFailure ==
    (FileFailed /\ Terminated) =>
        /\ \A k \in 1..Len(dir_or_file.files) : Printed(<<"Calculating", k>>)
        /\ SummaryWritten

\* the single file is missing the anchor of a branch
AnchorMissing ==
    /\ dir_or_file.kind = "file"
    /\ ~dir_or_file.file.ads.found \/ ~dir_or_file.file.des.found

\* C2: when the anchor of a branch is missing, parse_isoterm_branch returns the
\* zero placeholder and calc_file on that file completes: no exception escapes.
C2_MissingAnchorCompletes ==
    AnchorMissing =>
        /\ ~dir_or_file.file.ads.found =>
               parse_isoterm_branch(dir_or_file.file, "Adsorption") = ZeroPlaceholder
        /\ ~dir_or_file.file.des.found =>
               parse_isoterm_branch(dir_or_file.file, "Desorption") = ZeroPlaceholder
        /\ pc # "raised"
        /\ Terminated => exc = None

\* calc_BET was called on the branch of a file that has its adsorption table,
\* and the branch has fewer than 3 points in the BET window
FewBETPoints ==
    /\ dir_or_file.kind = "file"
    /\ dir_or_file.file.ads.found
    /\ iso.outcome = "ok"
    /\ bet_data # None
    /\ Len(BETWindow(iso.ads_p_q)) < 3

\* C3: with 0, 1 or 2 points in the BET window calc_BET ends in the outcome
\* InsufficientData: not in a result, not in a division by zero, not in
\* another exception.
C3_FewPointsInsufficientData ==
    FewBETPoints => bet_data.outcome = "InsufficientData"

\* calc_BJH has ended on the branch it was called on
BJHEnded == dir_or_file.kind = "branch" /\ pc # "calc_BJH"

\* calc_BJH has returned on a branch of measured points (no placeholder row)
BJHReturnedOnMeasured ==
    /\ BJHEnded
    /\ bjh_ads.outcome = "ok"
    /\ \A i \in 1..Len(dir_or_file.branch) : dir_or_file.branch[i][1] > 0

\* C4: on a branch of fewer than 2 points calc_BJH ends in the outcome
\* InsufficientData: it neither returns a result nor fails with another error.
C4_ShortBranchInsufficientData ==
    (BJHEnded /\ Len(dir_or_file.branch) < 2) =>
        bjh_ads.outcome = "InsufficientData"

\* C5 as claimed: the returned V and A never decrease from one step to the next.
C5_CumulativeNonDecreasing ==
    bjh_ads.outcome = "ok" =>
        \A i \in 2..Len(bjh_ads.V) :
            /\ bjh_ads.V[i] >= bjh_ads.V[i - 1]
            /\ bjh_ads.A[i] >= bjh_ads.A[i - 1]

\* C5 (amended): the returned V and A are the running sums of the differentials
\* as computed, negative ones included: V[i] = V[i-1] + dV[i] and
\* A[i] = A[i-1] + dA[i] (V[0] = dV[0], A[0] = dA[0]); so V (A) does not
\* decrease at a step whose dV (dA) is not negative.
C5_CumulativeAreRunningSums ==
    bjh_ads.outcome = "ok" =>
        \A i \in 1..Len(bjh_ads.V) :
            LET prevV == IF i = 1 THEN 0 ELSE bjh_ads.V[i - 1]
                prevA == IF i = 1 THEN 0 ELSE bjh_ads.A[i - 1]
            IN  /\ bjh_ads.V[i] = prevV + bjh_ads.dV[i]
                /\ bjh_ads.A[i] = prevA + bjh_ads.dA[i]
                /\ bjh_ads.dV[i] >= 0 => bjh_ads.V[i] >= prevV
                /\ bjh_ads.dA[i] >= 0 => bjh_ads.A[i] >= prevA

\* calc_BJH returned series in which a step has a negative dV and V decreases
C5_NegativeStepReturned ==
    /\ BJHEnded
    /\ bjh_ads.outcome = "ok"
    /\ \E i \in 2..Len(bjh_ads.V) :
           bjh_ads.dV[i] < 0 /\ bjh_ads.V[i] < bjh_ads.V[i - 1]

InWindow(d) == d >= start_pore_diam /\ d <= end_pore_diam

\* C6: max_D_user lies in [start_pore_diam, end_pore_diam] and is the diameter
\* of a step of the window whose dV/dD no step of the window exceeds.
C6_MaxDUserIsWindowPeak ==
    BJHReturnedOnMeasured =>
        /\ InWindow(bjh_ads.max_D_user)
        /\ \E j \in 1..Len(bjh_ads.D) :
               /\ bjh_ads.D[j] = bjh_ads.max_D_user
               /\ \A k \in 1..Len(bjh_ads.D) :
                      InWindow(bjh_ads.D[k])
                        => ~ExtGreater(bjh_ads.dV_dD[k], bjh_ads.dV_dD[j])

\* C7: the adsorption and the desorption branch parse_isotherms returns are
\* both in descending pressure order.
C7_BothBranchesDescending ==
    iso.outcome = "ok" =>
        /\ Descending(iso.ads_p_q)
        /\ Descending(iso.des_p_q)
        /\ \A i \in 1..(Len(iso.ads_p) - 1) : iso.ads_p[i] >= iso.ads_p[i + 1]
        /\ \A i \in 1..(Len(iso.des_p) - 1) : iso.des_p[i] >= iso.des_p[i + 1]

\* the branches extracted from the single file, sorted as lines 153-154 sort
SortedAds == ArgsortAscending(parse_isoterm_branch(dir_or_file.file, "Adsorption"))
SortedDes == ArgsortDescending(parse_isoterm_branch(dir_or_file.file, "Desorption"))

\* parse_isotherms returned for a file whose two branches are not empty and
\* have the same maximum pressure
MeetAtCommonMaximum ==
    /\ dir_or_file.kind = "file"
    /\ iso.outcome = "ok"
    /\ \A a \in SortedAds, d \in SortedDes :
           a # <<>> /\ d # <<>> /\ a[Len(a)][1] = d[1][1]

\* C8 as claimed: when the branches meet at a common maximum, the re-split
\* returns the two branches as they were: same points, same number, same order.
C8_SplitReturnsBothBranches ==
    MeetAtCommonMaximum =>
        \E a \in SortedAds, d \in SortedDes :
            iso.ads_p_q = a /\ iso.des_p_q = d

\* C8 (amended): when the branches meet at a common maximum, the adsorption
\* output is the adsorption branch as it was, and the desorption output is the
\* desorption branch preceded by the last (maximum pressure) point of the
\* adsorption branch, one point more than it had.
C8_SplitSharesMaximum ==
    MeetAtCommonMaximum =>
        \E a \in SortedAds, d \in SortedDes :
            /\ iso.ads_p_q = a
            /\ iso.des_p_q = <<a[Len(a)]>> \o d
            /\ Len(iso.des_p_q) = Len(d) + 1

\* parse_isotherms returned for branches of several points that meet at a
\* common maximum
C8_CommonMaximumSplit ==
    /\ MeetAtCommonMaximum
    /\ Len(dir_or_file.file.ads.rows) >= 2
    /\ Len(dir_or_file.file.des.rows) >= 2
    /\ iso.des_p_q[1] = iso.ads_p_q[Len(iso.ads_p_q)]

NineSeries ==
    {"D", "dV", "V", "dV_dD", "dV_dlogD", "dA", "A", "dA_dD", "dA_dlogD"}

\* the pressures of the branch b in descending order
SortedPressures(b) == Column(CHOOSE s \in ArgsortDescending(b) : TRUE, 1)

\* the diameter of the step from the point j - 1 to the point j of the
\* descending pressures p
StepDiameter(p, j) ==
    Radius(p[j]) + Radius(p[j - 1]) + WallLayer(p[j]) + WallLayer(p[j - 1])

\* C9: for a branch of n >= 2 points each of the nine returned series has
\* n - 1 elements, and element j is the one of step j + 1 of the descending
\* branch (D[j] is its diameter, V[j] and A[j] the sums up to it): the step of
\* index 0 is in none of them.
C9_SeriesExcludeSentinel ==
    (BJHEnded /\ bjh_ads.outcome = "ok" /\ Len(dir_or_file.branch) >= 2) =>
        LET n == Len(dir_or_file.branch)
            p == SortedPressures(dir_or_file.branch)
        IN  /\ \A name \in NineSeries : Len(bjh_ads[name]) = n - 1
            /\ \A j \in 1..(n - 1) : bjh_ads.D[j] = StepDiameter(p, j + 1)
            /\ bjh_ads.V[n - 1] = SumSeq(bjh_ads.dV)
            /\ bjh_ads.A[n - 1] = SumSeq(bjh_ads.dA)

\* calc_BJH returned on a branch of as many points as the model allows
C9_LongBranchReturned ==
    /\ BJHEnded
    /\ bjh_ads.outcome = "ok"
    /\ Len(dir_or_file.branch) = MaxBranchRows
    /\ Len(bjh_ads.D) = MaxBranchRows - 1

\* C10: for a branch of n >= 2 points max_D_full and max_D_user are the
\* diameter of a step i >= 1, never the diameter 0 of the step of index 0.
C10_PeakNeverSentinel ==
    (BJHReturnedOnMeasured /\ Len(dir_or_file.branch) >= 2) =>
        /\ bjh_ads.max_D_full # 0
        /\ bjh_ads.max_D_user # 0
        /\ \E j \in 1..Len(bjh_ads.D) : bjh_ads.D[j] = bjh_ads.max_D_full
        /\ \E j \in 1..Len(bjh_ads.D) : bjh_ads.D[j] = bjh_ads.max_D_user

DerivativeSeries == {"dV_dD", "dA_dD", "dV_dlogD", "dA_dlogD"}

\* the arrays the loop of calc_BJH has filled for the sorted branch b, before
\* the clamp
LoopOfSorted(b, nD, nL) ==
    BJHLoop(BJHZero, b, Radii(b), WallLayers(b),
            Diameters(Radii(b), WallLayers(b)), 2, nD, nL)

\* x >= 0 as a float comparison (False for nan)
ExtNonNegative(x) == x.k = "pinf" \/ (x.k = "fin" /\ x.v >= 0)

\* the derivative series of the result r are those of the loop arrays s with
\* the negative elements set to 0 and the others unchanged
ClampedFrom(r, s) ==
    \A name \in DerivativeSeries :
        \A j \in 1..Len(r[name]) :
            r[name][j] = IF ExtNegative(s[name][j + 1]) THEN Fin(0)
                         ELSE s[name][j + 1]

\* C11 as claimed: every element of the four returned derivative series
\* is >= 0.
C11_DerivativesNonNegative ==
    BJHReturnedOnMeasured =>
        \A name \in DerivativeSeries :
            \A j \in 1..Len(bjh_ads[name]) : ExtNonNegative(bjh_ads[name][j])

\* C11 (amended): no element of the four returned derivative series is
\* negative: a step whose computed derivative is negative is reported as 0 and
\* every other value is reported unchanged, a nan (0/0 at a step between rows
\* of equal pressure) included, which is not >= 0.
C11_NegativeDerivativesClamped ==
    (BJHEnded /\ bjh_ads.outcome = "ok") =>
        /\ \A name \in DerivativeSeries :
               \A j \in 1..Len(bjh_ads[name]) : ~ExtNegative(bjh_ads[name][j])
        /\ \E b \in ArgsortDescending(dir_or_file.branch) :
             \E nD \in Residues(b), nL \in Residues(b) :
               ClampedFrom(bjh_ads, LoopOfSorted(b, nD, nL))

\* calc_BJH returned a series in which a step of negative dV / dD is reported
\* as 0 and a step of positive dV / dD with its value
C11_ClampedStepReturned ==
    /\ BJHReturnedOnMeasured
    /\ \E j \in 1..Len(bjh_ads.dV) :
           bjh_ads.dV[j] < 0 /\ bjh_ads.dV_dD[j] = Fin(0)
    /\ \E j \in 1..Len(bjh_ads.dV) :
           bjh_ads.dV_dD[j].k = "fin" /\ bjh_ads.dV_dD[j].v > 0

\* the sum of the first i elements of x
PrefixSum(x, i) == SumSeq(SubSeq(x, 1, i))

\* the scalars of the result r are those of the un-clamped arrays: the totals
\* are maxima of the sums of the returned dV, dA (the 0 of index 0 included in
\* the full range), the averages are weighted by the returned dV, and
\* max_D_user is found in the derivative of the loop arrays s as they were
\* before the clamp
ScalarsFromUnclamped(r, s) ==
    LET D0 == <<0>> \o r.D
        V0 == <<0>> \o r.V
        A0 == <<0>> \o r.A
        dV0 == <<0>> \o r.dV
        mask == UserMask(D0, start_pore_diam, end_pore_diam)
        dV_D == Tuple([j \in 1..Len(D0) |-> MulDiv(dV0[j], D0[j], 1000)])
    IN  /\ r.total_V_full = MaxSeq(V0)
        /\ r.total_A_full = MaxSeq(A0)
        /\ r.total_V_user = MaxSeq(Masked(V0, mask))
        /\ r.total_A_user = MaxSeq(Masked(A0, mask))
        /\ r.ave_D_full = FloatDiv(SumSeq(dV_D), 1000, SumSeq(dV0))
        /\ r.ave_D_user = FloatDiv(SumSeq(Masked(dV_D, mask)), 1000,
                                   SumSeq(Masked(dV0, mask)))
        /\ r.max_D_user = D0[ArgMax(Masked(s.dV_dD, mask)) + 1]
        /\ r.max_D_full = D0[ArgMax(s.dV_dD) + 1]

\* C12: the clamp touches the four derivative series only, after the sums:
\* V[i] is the sum of the returned dV up to i and A[i] the sum of the returned
\* dA up to i, dV and dA being returned as computed (negative ones included),
\* and the totals, the averages and the peak diameters are those of the
\* un-clamped series.
C12_ClampAfterAccumulation ==
    (BJHEnded /\ bjh_ads.outcome = "ok") =>
        /\ \A i \in 1..Len(bjh_ads.V) :
               /\ bjh_ads.V[i] = PrefixSum(bjh_ads.dV, i)
               /\ bjh_ads.A[i] = PrefixSum(bjh_ads.dA, i)
        /\ \E b \in ArgsortDescending(dir_or_file.branch) :
             \E nD \in Residues(b), nL \in Residues(b) :
               LET s == LoopOfSorted(b, nD, nL)
               IN  /\ bjh_ads.dV = FromIndex1(s.diff_V)
                   /\ bjh_ads.dA = FromIndex1(s.diff_A)
                   /\ ScalarsFromUnclamped(bjh_ads, s)

\* calc_BJH returned a negative dV whose derivative is reported as 0, the sums
\* holding the negative dV, and a peak max_D_user that the clamped series
\* would not give
C12_UnclampedPeakReturned ==
    /\ BJHReturnedOnMeasured
    /\ \E i \in 1..Len(bjh_ads.dV) :
           /\ bjh_ads.dV[i] < 0
           /\ bjh_ads.dV_dD[i] = Fin(0)
           /\ bjh_ads.V[i] = PrefixSum(bjh_ads.dV, i)
    /\ bjh_ads.max_D_user #
           (<<0>> \o bjh_ads.D)[ArgMax(Masked(<<Fin(0)>> \o bjh_ads.dV_dD,
                UserMask(<<0>> \o bjh_ads.D, start_pore_diam, end_pore_diam))) + 1]

\* calc_BET has returned on the branch it was called on
BETReturned ==
    dir_or_file.kind = "ads" /\ pc # "calc_BET" /\ bet_data.outcome = "ok"

\* the rows of the branch b with 0.05 < p < 0.3, in the order of b
RECURSIVE StrictlyInside(_)
StrictlyInside(b) ==
    IF b = <<>> THEN <<>>
    ELSE (IF 50 < b[1][1] /\ b[1][1] < 300 THEN <<b[1]>> ELSE <<>>)
         \o StrictlyInside(Tail(b))

\* C13: calc_BET fits the points of the branch with 0.05 < p < 0.3 and no
\* other: bet_x holds exactly their pressures and bet_y their transformed
\* quantities; a point at 0.05 or at 0.3 is not among them.
C13_BETWindowStrict ==
    BETReturned =>
        LET inside == StrictlyInside(dir_or_file.branch)
        IN  /\ bet_data.bet_x = Column(inside, 1)
            /\ Len(bet_data.bet_y) = Len(inside)
            /\ \A i \in 1..Len(inside) :
                   bet_data.bet_y[i] = BETTransform(inside[i][1], inside[i][2])
            /\ \A i \in 1..Len(bet_data.bet_x) :
                   bet_data.bet_x[i] # 50 /\ bet_data.bet_x[i] # 300

\* calc_BET returned a fit of three points for a branch that has a point at a
\* bound of the window
C13_BoundaryPointExcluded ==
    /\ BETReturned
    /\ Len(bet_data.bet_x) = 3
    /\ IsFinite(bet_data.bet_A_err)
    /\ \E i \in 1..Len(dir_or_file.branch) : dir_or_file.branch[i][1] \in {50, 300}

\* a and b agree up to the rounding of the fixed point arithmetic (1 % and
\* 0.01 of a unit)
Close(a, b) == Abs(a - b) * 100 <= Abs(b) + 1000

\* 3 * sqrt(slope_err^2 + intercept_err^2) / (slope + intercept) in 1/1000,
\* slope_err and intercept_err being slope and intercept times
\* sqrt((r^-2 - 1) / (n - 2)), for the fit of the points xs, ys (n >= 3)
RelativeAreaError(xs, ys) ==
    LET fit == linregress(xs, ys)
        rel == ISqrt(Quot(Quot((100000000 - fit.r_value * fit.r_value) * 10,
                               (fit.r_value * fit.r_value) \div 100000),
                          Len(xs) - 2))
        slope_err == MulDiv(fit.slope, rel, 1000)
        intercept_err == MulDiv(fit.intercept, rel, 1000)
        norm == ISqrt((slope_err \div 100) * (slope_err \div 100)
                      + (intercept_err \div 100) * (intercept_err \div 100))
    IN  Quot(3 * norm * 100000, fit.slope + fit.intercept)

\* calc_BET has returned a fit of three points or more
BETFitted == BETReturned /\ Len(bet_data.bet_x) >= 3

\* C14 as claimed: bet_A_err is
\* 3 * sqrt(slope_err^2 + intercept_err^2) / (slope + intercept).
C14_ErrIsRelativeError ==
    BETFitted =>
        /\ IsFinite(bet_data.bet_A_err)
        /\ Close(bet_data.bet_A_err.v,
                 RelativeAreaError(bet_data.bet_x, bet_data.bet_y))

\* C14 (amended): bet_A_err is
\* 3 * bet_A * sqrt(slope_err^2 + intercept_err^2) / (slope + intercept):
\* the claimed quantity times the surface area bet_A, an error in m2/g.
C14_ErrIsAreaTimesRelativeError ==
    BETFitted =>
        /\ IsFinite(bet_data.bet_A) /\ IsFinite(bet_data.bet_A_err)
        /\ Close(bet_data.bet_A_err.v,
                 MulDiv(bet_data.bet_A.v,
                        RelativeAreaError(bet_data.bet_x, bet_data.bet_y), 1000))

\* calc_BET returned a fit whose error is not 0 and whose area is not 1 m2/g
C14_ErrorReturned ==
    /\ BETFitted
    /\ IsFinite(bet_data.bet_A_err) /\ bet_data.bet_A_err.v > 1000
    /\ IsFinite(bet_data.bet_A) /\ bet_data.bet_A.v > 10000

\* the directory run has ended and calc_file failed on no file
BatchProcessed ==
    /\ dir_or_file.kind = "dir"
    /\ Terminated
    /\ ~FileFailed

\* the workbook w is the aggregate of the n files processed: a title row, a
\* unit row, then one row per file in processing order, each holding the
\* sample name and as many values as the title row has titles
AggregateOf(w, n) ==
    /\ w.name = <<"summary_calc.xlsx">>
    /\ w.complete
    /\ Len(w.rows) = n + 2
    /\ w.rows[1][1] = "Sample"
    /\ Len(w.rows[2]) = Len(w.rows[1])
    /\ \A k \in 1..n :
           /\ w.rows[k + 2][1] = k
           /\ Len(w.rows[k + 2]) = Len(w.rows[1])

\* C15: in directory mode, for N >= 0 files that all process, one aggregate
\* workbook summary_calc.xlsx is written, with a title row, a unit row and one
\* row per file in processing order, of the sample name and one value per
\* title.
C15_AggregateWorkbookWritten ==
    BatchProcessed =>
        /\ exc = None
        /\ \E i \in 1..Len(workbooks) :
               /\ AggregateOf(workbooks[i], Len(dir_or_file.files))
               /\ \A j \in 1..Len(workbooks) :
                      workbooks[j].name = <<"summary_calc.xlsx">> => j = i

\* parse_tristar has ended on a directory in which the line of a summary
\* value is missing from a file
ValueMissing ==
    /\ dir_or_file.kind = "parse_dir"
    /\ Terminated
    /\ \E k \in 1..Len(dir_or_file.files) : dir_or_file.files[k].missing # {}

\* the cell (row, col) was written to the workbook w
CellWritten(w, row, col) ==
    \E c \in 1..Len(w.cells) : w.cells[c].row = row /\ w.cells[c].col = col

\* C16: when a summary value is not found in a file, summary.xlsx is still
\* written in full and no exception is raised: the value of every sample
\* that was found has its cell (sample k in row k + 1, value i in column i).
C16_MissingValueSkipped ==
    ValueMissing =>
        /\ exc = None
        /\ \E w \in 1..Len(workbooks) :
               /\ workbooks[w].name = <<"summary.xlsx">>
               /\ workbooks[w].complete
               /\ \A k \in 1..Len(dir_or_file.files) :
                    \A i \in 1..Len(search_vals) :
                      search_vals[i] \notin dir_or_file.files[k].missing
                        => CellWritten(workbooks[w], k + 1, i)

\* the value at position r (from 1) of the column c (from 1) of the columns
\* handed to a writer has its own cell in the workbook w, header rows above
CellOfValue(w, header, c, r) ==
    \E k \in 1..Len(w.cells) :
        /\ w.cells[k].row = r - 1 + header
        /\ w.cells[k].col = c - 1 + dir_or_file.offset
        /\ w.cells[k].val = dir_or_file.data[c][r]

\* C17: whatever the lengths of the columns, either writer writes every
\* value of every column to its own cell and no write fails.
C17_NoColumnTruncated ==
    (dir_or_file.kind = "columns" /\ Terminated) =>
        /\ exc = None
        /\ \A w \in 1..Len(workbooks) :
             /\ workbooks[w].complete
             /\ \A c \in 1..Len(dir_or_file.data) :
                  \A r \in 1..Len(dir_or_file.data[c]) :
                    CellOfValue(workbooks[w],
                        IF workbooks[w].name = <<"calc">> THEN 3 ELSE 0, c, r)

\* write_graphs_to_worksheet alone writes every value of every series
GraphsNeverTruncated ==
    (dir_or_file.kind = "columns" /\ Terminated) =>
        \A w \in 1..Len(workbooks) :
            workbooks[w].name = <<"calc">> =>
              /\ workbooks[w].complete
              /\ \A c \in 1..Len(dir_or_file.data) :
                   \A r \in 1..Len(dir_or_file.data[c]) :
                     CellOfValue(workbooks[w], 3, c, r)

\* write_to_worksheet ends in IndexError on a column shorter than the first
ShortColumnRaises ==
    /\ dir_or_file.kind = "columns"
    /\ pc = "raised"
    /\ exc.outcome = "IndexError"

\* the two trees have the same names at every depth, each a directory in
\* both or a file in both
RECURSIVE SameTree(_, _)
SameTree(s, t) ==
    /\ DOMAIN s = DOMAIN t
    /\ \A n \in DOMAIN s :
         /\ s[n].type = t[n].type
         /\ s[n].type = "dir" => SameTree(s[n].entries, t[n].entries)

\* C18: after sync_dirs has returned, the source and target trees hold the
\* same subdirectories and files, whatever the target held before.
C18_TreesEqualAfterSync ==
    (dir_or_file.kind = "sync" /\ pc = "done") =>
        SameTree(dir_or_file.source, target_dir)

\* sync_dirs ends in an exception where the source has a directory and the
\* target a file of the same name
SyncRaises ==
    /\ dir_or_file.kind = "sync"
    /\ pc = "raised"

\* without an entry that is a file on one side and a directory on the
\* other, sync_dirs returns and the trees are the same
RECURSIVE SameTypes(_, _)
SameTypes(s, t) ==
    \A n \in DOMAIN s \cap DOMAIN t :
        /\ s[n].type = t[n].type
        /\ s[n].type = "dir" => SameTypes(s[n].entries, t[n].entries)

SyncOfMatchingTypes ==
    (dir_or_file.kind = "sync" /\ Terminated
       /\ SameTypes(dir_or_file.source, dir_or_file.target)) =>
        /\ pc = "done"
        /\ SameTree(dir_or_file.source, target_dir)

\* parse_args has ended: returned, raised or exited through parser.error
ArgsEnded ==
    dir_or_file.kind = "args" /\ pc \in {"done", "raised", "exited"}

SpectraMismatch ==
    /\ pc = "exited"
    /\ exc.message = <<"number of measured spectra in the CSV file does not correspond to specified holder IDs and element amounts">>

\* the lists as supplied on the command line agree with the file
SuppliedConsistent ==
    \/ Len(dir_or_file.holders) + Len(dir_or_file.element_amounts) = args.num_spectra
    \/ Len(dir_or_file.holders) = args.num_spectra

\* C19: with --calibrate and holders given, a run that reaches the check
\* of lines 467-469 ends in the parser error about the number of measured
\* spectra exactly when the lists as supplied are inconsistent with the
\* number of spectra of the file.
C19_MismatchRejectedExactly ==
    (ArgsEnded /\ dir_or_file.calibrate /\ dir_or_file.holders # <<>>
       /\ (pc = "done" \/ SpectraMismatch)) =>
        (SpectraMismatch <=> ~SuppliedConsistent)

\* some element of the command line is not a key of get_elements()
UnknownElement ==
    \/ dir_or_file.powder_element \notin DOMAIN get_elements
    \/ \E i \in 1..Len(dir_or_file.elements) :
           dir_or_file.elements[i] \notin DOMAIN get_elements

\* C20: when the powder element or a selected element is not a key of
\* get_elements(), parse_args ends in the parser error that says the
\* element is not in element_data.py, never in an unhandled exception.
C20_UnknownElementParserError ==
    (ArgsEnded /\ UnknownElement) =>
        /\ pc = "exited"
        /\ exc.message[Len(exc.message)] \in
             {"is not in ./element_content/element_data.py",
              "selected for analysis is not in ./element_content/element_data.py"}

\* an unknown element ends parse_args in the KeyError of the first beam loop
UnknownElementKeyError ==
    /\ ArgsEnded
    /\ UnknownElement
    /\ pc = "raised"
    /\ exc.outcome = "KeyError"

\* the checks of lines 396-400 never fail: an unknown element does not
\* get past the loop of lines 391-393
ElementCheckNeverFails ==
    (dir_or_file.kind = "args" /\ UnknownElement) =>
        pc \in {"parse_args", "beams", "raised", "exited"} /\
        (pc = "exited" => exc.message[1] = "No beam")

\* a command line whose lists agree with the file is rejected when a
\* holder ID is repeated
ConsistentRejected ==
    /\ ArgsEnded
    /\ dir_or_file.calibrate
    /\ SpectraMismatch
    /\ SuppliedConsistent

\* calc_file has parsed a single file in which exactly one of the two
\* branches is not found
OneBranchFound ==
    /\ dir_or_file.kind = "file"
    /\ dir_or_file.file.ads.found # dir_or_file.file.des.found
    /\ iso # None
    /\ iso.outcome = "ok"

\* the rows of the branch of the single file that was found
FoundRows ==
    LET t == IF dir_or_file.file.ads.found THEN dir_or_file.file.ads
             ELSE dir_or_file.file.des
    IN  {t.rows[i] : i \in 1..Len(t.rows)}

\* C21: when exactly one branch is not found, the merged isotherm and the
\* re-split ads_p_q and des_p_q hold only rows of the branch that was found:
\* no row that is not in the file, such as (0, 0), is handed to calc_BET or
\* calc_BJH.
C21_MissingBranchIsNoData ==
    OneBranchFound =>
        /\ Len(iso.iso_p) = Cardinality(DOMAIN (IF dir_or_file.file.ads.found
                                                THEN dir_or_file.file.ads.rows
                                                ELSE dir_or_file.file.des.rows))
        /\ \A i \in 1..Len(iso.ads_p_q) : iso.ads_p_q[i] \in FoundRows
        /\ \A i \in 1..Len(iso.des_p_q) : iso.des_p_q[i] \in FoundRows

\* no directory that the two trees share holds a name in the target that
\* its source directory does not have
RECURSIVE NoTargetOnly(_, _)
NoTargetOnly(s, t) ==
    /\ DOMAIN t \subseteq DOMAIN s
    /\ \A n \in DOMAIN t \cap DOMAIN s :
         (s[n].type = "dir" /\ t[n].type = "dir")
            => NoTargetOnly(s[n].entries, t[n].entries)

\* the directory a printed path lies in
Parent(path) == SubSeq(path, 1, Len(path) - 1)

\* within one directory no removal is printed after a copy, an update or a
\* directory creation
RemovalsFirst(out) ==
    \A i \in 1..Len(out) : \A j \in 1..Len(out) :
        (/\ i < j
         /\ out[j][1] = "Removing"
         /\ Parent(out[i][2]) = Parent(out[j][2]))
          => out[i][1] \in {"Removing", "Entering directory"}

\* C22: after sync_dirs has returned, no directory of the target that the
\* source has too holds an entry whose name its source directory lacks
\* (target-only files and whole target-only subtrees are gone), and in
\* every directory the removals come before any copy or creation.
C22_TargetOnlyRemovedFirst ==
    (dir_or_file.kind = "sync" /\ pc = "done") =>
        /\ NoTargetOnly(dir_or_file.source, target_dir)
        /\ RemovalsFirst(stdout)

\* sync_dirs has returned after removing a target-only directory that held
\* entries and copying a file in the same directory
C22_SubtreeRemovedThenCopied ==
    /\ dir_or_file.kind = "sync"
    /\ pc = "done"
    /\ \E n \in DOMAIN dir_or_file.target \ DOMAIN dir_or_file.source :
         /\ dir_or_file.target[n].type = "dir"
         /\ dir_or_file.target[n].entries # EmptyTree
    /\ \E k \in 1..Len(stdout) :
         stdout[k][1] = "File copied" /\ Len(stdout[k][2]) = 1

\* for every file that the source s and the target before the call t0 both
\* hold under the same path, the target after the call t1 holds the source
\* file when the source file is strictly newer and the file of t0 otherwise
RECURSIVE UpdatedOnlyIfNewer(_, _, _)
UpdatedOnlyIfNewer(s, t0, t1) ==
    \A n \in DOMAIN s \cap DOMAIN t0 :
        /\ (s[n].type = "file" /\ t0[n].type = "file") =>
               /\ n \in DOMAIN t1
               /\ t1[n] = IF s[n].mtime > t0[n].mtime THEN s[n] ELSE t0[n]
        /\ (s[n].type = "dir" /\ t0[n].type = "dir") =>
               /\ n \in DOMAIN t1
               /\ UpdatedOnlyIfNewer(s[n].entries, t0[n].entries, t1[n].entries)

Merged == Tuple([i \in 1..Len(iso.iso_p) |-> <<iso.iso_p[i], iso.iso_q[i]>>])

\* position (from 1) of the first occurrence of the largest pressure
FirstMaximum(p) ==
    CHOOSE i \in 1..Len(p) :
        /\ \A j \in 1..Len(p) : p[j] <= p[i]
        /\ \A j \in 1..(i - 1) : p[j] # p[i]

Permuted(b) ==
    { Tuple([i \in 1..Len(b) |-> b[f[i]]]) :
        f \in { g \in [1..Len(b) -> 1..Len(b)] :
                  \A i, j \in 1..Len(b) : g[i] = g[j] => i = j } }

DistinctPressures(b) ==
    \A i, j \in 1..Len(b) : b[i][1] = b[j][1] => i = j

\* C25: for a branch of pairwise distinct pressures, calc_BJH called on the
\* rows in any other order gives the result it gave: the same outcome, the
\* same series and the same summary scalars.
C25_RowOrderIrrelevant ==
    (dir_or_file.kind = "branch" /\ Terminated
       /\ DistinctPressures(dir_or_file.branch)) =>
        \A p \in Permuted(dir_or_file.branch) :
            \A r \in calc_BJH(p, start_pore_diam, end_pore_diam) :
                r.outcome = bjh_ads.outcome /\ r = bjh_ads

\* calc_BJH returned on three rows of distinct pressures given in ascending
\* pressure order
C25_AscendingBranchReturned ==
    /\ dir_or_file.kind = "branch"
    /\ pc = "done"
    /\ Len(dir_or_file.branch) = 3
    /\ \A i \in 1..2 : dir_or_file.branch[i][1] < dir_or_file.branch[i + 1][1]
    /\ dir_or_file.branch[1][1] > 0
    /\ bjh_ads.outcome = "ok"

\* the workbook of the file calc_file works on, if it was written
ReportOf(f) ==
    {w \in 1..Len(workbooks) : workbooks[w].name = <<f, "_calc.xlsx">>}

C27_NoFileTouchedUnlessY ==
    (pc # "prompt" /\ user_input # <<"y">>) =>
        /\ workbooks = <<>>
        /\ pc = "done"
        /\ exc = None

\* a run on a directory that holds files has ended after the answer 'Y'
C27_CapitalYAborts ==
    /\ pc = "done"
    /\ user_input = <<"Y">>
    /\ dir_or_file.kind \in {"dir", "parse_dir", "encode_dir"}
    /\ Len(dir_or_file.files) >= 1
    /\ workbooks = <<>>

====
